---- MODULE Spec2Model ----
(***************************************************************************)
(* The on-disk B-tree index of btreeidx.cc: IndexedWords (addWord,         *)
(* addSingleWord), the writer (buildIndex, buildBtreeNode), the reader     *)
(* (openIndex, findChainOffsetExactOrPrefix, readChain, antialias,         *)
(* findArticles) and the asynchronous prefix / stemmed search request.     *)
(*                                                                         *)
(* Strings are sequences of numbers: a wstring is a sequence of code       *)
(* points, a std::string and every node buffer a sequence of bytes.  A     *)
(* pointer into a buffer is a 0-based byte offset.  A uint32_t is held as  *)
(* its 32-bit two's complement image (0xffffFFFF is -1), since the model   *)
(* checker's integers are 32 bits wide.                                    *)
(***************************************************************************)
EXTENDS Integers, Sequences, FiniteSets, TLC

(***************************************************************************)
(* Characters and text helpers                                             *)
(***************************************************************************)

\* The code point of a character written as a one-character string.
Code(c) ==
    CASE c = " " -> 32  [] c = "-" -> 45
      [] c = "A" -> 65  [] c = "B" -> 66  [] c = "N" -> 78
      [] c = "a" -> 97  [] c = "b" -> 98  [] c = "c" -> 99
      [] c = "d" -> 100 [] c = "e" -> 101 [] c = "k" -> 107
      [] c = "z" -> 122 [] c = "a'" -> 225 [] c = "A'" -> 193
      [] c = "C" -> 67  [] c = "Y" -> 89  [] c = "i" -> 105
      [] c = "l" -> 108 [] c = "n" -> 110 [] c = "o" -> 111
      [] c = "p" -> 112
      [] c = "r" -> 114 [] c = "s" -> 115 [] c = "t" -> 116
      [] c = "w" -> 119 [] c = "y" -> 121

\* A wstring from its characters: W(<<"a", " ", "b">>).
W(cs) == [i \in DOMAIN cs |-> Code(cs[i])]

\* The concatenation of the sequences ss[lo], ..., ss[hi].
RECURSIVE FlattenRange(_, _, _)
FlattenRange(ss, lo, hi) ==
    IF lo > hi THEN <<>>
    ELSE IF lo = hi THEN ss[lo]
    ELSE FlattenRange(ss, lo, (lo + hi) \div 2)
             \o FlattenRange(ss, (lo + hi) \div 2 + 1, hi)

Flatten(ss) == FlattenRange(ss, 1, Len(ss))

\* basic_string::compare: -1, 0 or 1 by the first differing element, a
\* proper prefix being smaller.
RECURSIVE CompareFrom(_, _, _)
CompareFrom(a, b, i) ==
    IF i > Len(a) THEN (IF i > Len(b) THEN 0 ELSE -1)
    ELSE IF i > Len(b) THEN 1
    ELSE IF a[i] < b[i] THEN -1
    ELSE IF a[i] > b[i] THEN 1
    ELSE CompareFrom(a, b, i + 1)

Compare(a, b) == CompareFrom(a, b, 1)

\* resultFolded.size() >= folded.size() && !resultFolded.compare(0, folded.size(), folded)
StartsWith(s, p) == Len(s) >= Len(p) /\ SubSeq(s, 1, Len(p)) = p

(***************************************************************************)
(* Folding and Utf8: their code is not part of btreeidx.cc; they are       *)
(* modelled as the specification describes them.                           *)
(***************************************************************************)

isWhitespace(ch) == ch = 32

isPunct(ch) == ch = 45

\* Full fold of one character: case folding and diacritic stripping.
FoldChar(ch) ==
    IF ch >= 65 /\ ch <= 90 THEN ch + 32
    ELSE IF ch = 225 \/ ch = 193 THEN 97
    ELSE ch

\* Folding::apply
apply(in) == [i \in DOMAIN in |-> FoldChar(in[i])]

\* Simple case fold of one character: case only, diacritics kept.
SimpleCaseChar(ch) ==
    IF ch >= 65 /\ ch <= 90 THEN ch + 32
    ELSE IF ch = 193 THEN 225
    ELSE ch

\* Folding::applySimpleCaseOnly
applySimpleCaseOnly(in) == [i \in DOMAIN in |-> SimpleCaseChar(in[i])]

\* UTF-8 image of one code point (one or two bytes cover the alphabet).
EncodeChar(ch) ==
    IF ch < 128 THEN <<ch>>
    ELSE <<192 + (ch \div 64), 128 + (ch % 64)>>

\* Utf8::encode
Utf8Encode(ws) == Flatten([i \in DOMAIN ws |-> EncodeChar(ws[i])])

\* Utf8::decode of bytes[i..]: the code points, or <<-1>> appended to what
\* was decoded when the bytes are not valid UTF-8.
RECURSIVE DecodeFrom(_, _)
DecodeFrom(bytes, i) ==
    IF i > Len(bytes) THEN <<>>
    ELSE IF bytes[i] < 128 THEN <<bytes[i]>> \o DecodeFrom(bytes, i + 1)
    ELSE IF /\ bytes[i] >= 192 /\ bytes[i] < 224 /\ i + 1 <= Len(bytes)
            /\ bytes[i + 1] >= 128 /\ bytes[i + 1] < 192
         THEN <<(bytes[i] - 192) * 64 + (bytes[i + 1] - 128)>>
                  \o DecodeFrom(bytes, i + 2)
    ELSE <<-1>>

Utf8Decode(bytes) == DecodeFrom(bytes, 1)

\* Utf8::decode reports failure with a negative result.
CantDecode(ws) == \E i \in DOMAIN ws : ws[i] < 0

(***************************************************************************)
(* Bytes, 32-bit words and buffers                                         *)
(***************************************************************************)

\* file.write< uint32_t >( v ): four bytes, little endian.
U32(v) ==
    <<v % 256, (v \div 256) % 256, (v \div 65536) % 256, (v \div 16777216) % 256>>

\* *(uint32_t *)( buf + p ) / memcpy( &v, buf + p, 4 ): p is 0-based.
ReadU32(buf, p) ==
    buf[p + 1] + 256 * buf[p + 2] + 65536 * buf[p + 3]
        + 16777216 * (IF buf[p + 4] >= 128 THEN buf[p + 4] - 256 ELSE buf[p + 4])

\* The first word of an internal node, 0xffffFFFF.
NodeMarker == -1

\* strlen( buf + p )
RECURSIVE strlen(_, _)
strlen(buf, p) == IF buf[p + 1] = 0 THEN 0 ELSE 1 + strlen(buf, p + 1)

\* The C string at buf + p, without its terminator.
CStr(buf, p) == SubSeq(buf, p + 1, p + strlen(buf, p))

(***************************************************************************)
(* IndexedWords: a std::map from the UTF-8 folded key to its chain, held   *)
(* as the sequence of its entries in key order (the order of iteration).   *)
(***************************************************************************)

\* WordArticleLink( word, articleOffset, prefix = "" )
WordArticleLink(word, articleOffset, prefix) ==
    [word |-> word, articleOffset |-> articleOffset, prefix |-> prefix]

\* std::map::lower_bound among the entries lo + 1 .. hi: the number of
\* entries of iw whose key is smaller than key.
RECURSIVE LowerBoundIn(_, _, _, _)
LowerBoundIn(iw, key, lo, hi) ==
    IF lo = hi THEN lo
    ELSE LET mid == (lo + hi) \div 2
         IN  IF Compare(iw[mid + 1].first, key) < 0
             THEN LowerBoundIn(iw, key, mid + 1, hi)
             ELSE LowerBoundIn(iw, key, lo, mid)

LowerBound(iw, key) == LowerBoundIn(iw, key, 0, Len(iw))

\* The chain stored under key, <<>> when the map has no such key.
ChainOf(iw, key) ==
    LET n == LowerBound(iw, key)
    IN  IF n < Len(iw) /\ iw[n + 1].first = key THEN iw[n + 1].second ELSE <<>>

HasKey(iw, key) ==
    LET n == LowerBound(iw, key)
    IN  n < Len(iw) /\ iw[n + 1].first = key

\* std::map::insert( value_type( key, chain ) ): an existing key keeps the
\* chain it has, a new key is entered at its place in the order.
MapInsert(iw, key, chain) ==
    LET n == LowerBound(iw, key)
    IN  IF n < Len(iw) /\ iw[n + 1].first = key
        THEN iw
        ELSE SubSeq(iw, 1, n) \o <<[first |-> key, second |-> chain]>>
                 \o SubSeq(iw, n + 1, Len(iw))

\* i->second.emplace_back( link ) on the entry of key.
ChainAppend(iw, key, link) ==
    LET n == LowerBound(iw, key)
    IN  [iw EXCEPT ![n + 1].second = Append(@, link)]

\* Chains are not populated with middle matches beyond this size.
MaxMiddleMatchChain == 1024

\* word[ p ] of a NUL-terminated wstring, p 0-based.
CharAt(word, p) == IF p < Len(word) THEN word[p + 1] ELSE 0

\* The characters word[ from .. from + count - 1 ], from 0-based.
Chars(word, from, count) == SubSeq(word, from + 1, from + count)

RECURSIVE SkipLeadingWhitespace(_, _)
SkipLeadingWhitespace(word, p) ==
    IF CharAt(word, p) # 0 /\ isWhitespace(CharAt(word, p))
    THEN SkipLeadingWhitespace(word, p + 1) ELSE p

RECURSIVE SkipTrailingWhitespace(_, _, _)
SkipTrailingWhitespace(word, wordBegin, wordSize) ==
    IF wordSize > 0 /\ isWhitespace(CharAt(word, wordBegin + wordSize - 1))
    THEN SkipTrailingWhitespace(word, wordBegin, wordSize - 1) ELSE wordSize

\* "Skip any whitespace/punctuation": the position of the next character
\* that is neither, or of the terminator.
RECURSIVE SkipSeparators(_, _)
SkipSeparators(word, p) ==
    IF CharAt(word, p) = 0 THEN p
    ELSE IF ~isWhitespace(CharAt(word, p)) /\ ~isPunct(CharAt(word, p)) THEN p
    ELSE SkipSeparators(word, p + 1)

\* A skip that runs to the terminator, so that a headword has one token.
SkipTokenToEnd(word, p) == Len(word)

\* "Skip all non-whitespace/punctuation": the position of the next
\* whitespace or punctuation character, or of the terminator.
RECURSIVE SkipToken(_, _)
SkipToken(word, p) ==
    IF CharAt(word, p) = 0 THEN p
    ELSE IF isWhitespace(CharAt(word, p)) \/ isPunct(CharAt(word, p)) THEN p
    ELSE SkipToken(word, p + 1)

\* A cap that holds for whole headwords too.
KeepsBelowCapOnly(chainSize, nextChar, wordBegin) ==
    chainSize < MaxMiddleMatchChain

\* The condition under which addWord appends to the chain it found.
KeepsInsertion(chainSize, nextChar, wordBegin) ==
    chainSize < MaxMiddleMatchChain \/ nextChar = wordBegin

\* One round of addWord's loop for the token at nextChar.
InsertSuffix(iw, word, wordBegin, wordSize, nextChar, articleOffset) ==
    LET folded == apply(Chars(word, nextChar, Len(word) - nextChar))
        key == Utf8Encode(folded)
        inserted == MapInsert(iw, key, <<>>)
        utfWord == Utf8Encode(Chars(word, nextChar, wordSize - (nextChar - wordBegin)))
        utfPrefix == Utf8Encode(Chars(word, wordBegin, nextChar - wordBegin))
    IN  IF KeepsInsertion(Len(ChainOf(inserted, key)), nextChar, wordBegin)
        THEN ChainAppend(inserted, key,
                         WordArticleLink(utfWord, articleOffset, utfPrefix))
        ELSE inserted

RECURSIVE addWordLoop(_, _, _, _, _, _)
addWordLoop(iw, word, wordBegin, wordSize, from, articleOffset) ==
    LET nextChar == SkipSeparators(word, from)
    IN  IF CharAt(word, nextChar) = 0 THEN iw
        ELSE LET added == InsertSuffix(iw, word, wordBegin, wordSize, nextChar,
                                       articleOffset)
                 after == SkipToken(word, nextChar + 1)
             IN  IF CharAt(word, after) = 0 THEN added
                 ELSE addWordLoop(added, word, wordBegin, wordSize, after,
                                  articleOffset)

\* IndexedWords::addWord
addWord(iw, word, articleOffset) ==
    LET wordBegin == SkipLeadingWhitespace(word, 0)
        wordSize == SkipTrailingWhitespace(word, wordBegin, Len(word) - wordBegin)
    IN  addWordLoop(iw, word, wordBegin, wordSize, wordBegin, articleOffset)

\* IndexedWords::addSingleWord
addSingleWord(iw, word, articleOffset) ==
    MapInsert(iw, Utf8Encode(apply(word)),
              <<WordArticleLink(Utf8Encode(word), articleOffset, <<>>)>>)

(***************************************************************************)
(* The index file: its bytes and its position indicator.                   *)
(***************************************************************************)

\* File::Class::seek
FileSeek(file, offset) == [file EXCEPT !.pos = offset]

\* File::Class::write: the bytes go over what lies at the position and
\* extend the file past its end.
FileWrite(file, bytes) ==
    [data |-> SubSeq(file.data, 1, file.pos) \o bytes
                  \o SubSeq(file.data, file.pos + Len(bytes) + 1, Len(file.data)),
     pos |-> file.pos + Len(bytes)]

\* The first byte of a compressed image in this model of zlib's stream.
ZlibHeader == 120

\* compress(): zlib is a library; its stream is modelled as a header byte
\* followed by the data, so that the two sizes of a node differ.
Compress(data) == <<ZlibHeader>> \o data

\* uncompress() with the check of the decompressed length: the data, or
\* <<-1>> when the stream is not one of Compress or has another length.
Uncompress(compressed, uncompressedSize) ==
    IF /\ Len(compressed) >= 1
       /\ compressed[1] = ZlibHeader
       /\ Len(compressed) - 1 = uncompressedSize
    THEN Tail(compressed)
    ELSE <<-1>>

(***************************************************************************)
(* The writer: buildBtreeNode and buildIndex                               *)
(***************************************************************************)

BtreeMinElements == 64

BtreeMaxElements == 4096

\* One record of a chain in a leaf: word, NUL, prefix, NUL, articleOffset.
LinkBytes(link) ==
    link.word \o <<0>> \o link.prefix \o <<0>> \o U32(link.articleOffset)

\* One chain in a leaf: the size of its records, then the records.
ChainBytes(chain) ==
    LET records == Flatten([i \in DOMAIN chain |-> LinkBytes(chain[i])])
    IN  U32(Len(records)) \o records

\* The uncompressed image of a leaf holding the indexSize entries that
\* start at nextIndex.
LeafData(iw, nextIndex, indexSize) ==
    U32(indexSize)
        \o Flatten([x \in 1 .. indexSize |-> ChainBytes(iw[nextIndex + x - 1].second)])

\* A save that leaves the link of the leaf written before as it is.
SaveNodeUnlinked(file, uncompressedData, isLeaf, lastLeafLinkOffset) ==
    LET compressedData == Compress(uncompressedData)
        written == FileWrite(FileWrite(FileWrite(file,
                       U32(Len(uncompressedData))),
                       U32(Len(compressedData))),
                       compressedData)
        linked == FileWrite(written, U32(0))
    IN  IF isLeaf
        THEN [offset |-> file.pos, file |-> linked,
              lastLeafLinkOffset |-> linked.pos - 4]
        ELSE [offset |-> file.pos, file |-> written,
              lastLeafLinkOffset |-> lastLeafLinkOffset]

\* "Save the result": the node's two sizes and compressed image go to the
\* file; a leaf is followed by its forward link, written as 0, and the
\* previous leaf's link is updated to this leaf's offset.
SaveNode(file, uncompressedData, isLeaf, lastLeafLinkOffset) ==
    LET compressedData == Compress(uncompressedData)
        offset == file.pos
        written == FileWrite(FileWrite(FileWrite(file,
                       U32(Len(uncompressedData))),
                       U32(Len(compressedData))),
                       compressedData)
        linked == FileWrite(written, U32(0))
        here == linked.pos
        patched == IF lastLeafLinkOffset # 0
                   THEN FileSeek(FileWrite(FileSeek(linked, lastLeafLinkOffset),
                                           U32(offset)),
                                 here)
                   ELSE linked
    IN  IF isLeaf
        THEN [offset |-> offset, file |-> patched, lastLeafLinkOffset |-> here - 4]
        ELSE [offset |-> offset, file |-> written,
              lastLeafLinkOffset |-> lastLeafLinkOffset]

\* curEntry of round x of an internal node's loop.
CurEntry(indexSize, x, maxElements) ==
    (indexSize * (x + 1)) \div (maxElements + 1)

\* The number of entries child x of an internal node takes: curEntry -
\* prevEntry for x < maxElements, prevEntry being the curEntry of the round
\* before (0 at first), and indexSize - prevEntry for the rightmost child.
ChildSize(indexSize, x, maxElements) ==
    LET prevEntry == IF x = 0 THEN 0 ELSE CurEntry(indexSize, x - 1, maxElements)
    IN  IF x < maxElements
        THEN CurEntry(indexSize, x, maxElements) - prevEntry
        ELSE indexSize - prevEntry

RECURSIVE buildBtreeNode(_, _, _, _, _, _)
RECURSIVE BuildChildren(_, _, _, _, _, _)

\* The children lo .. hi - 1 of an internal node, built in this order (the
\* rounds of the loop over x, and the rightmost child as round
\* maxElements).  st carries the iterator, the file, lastLeafLinkOffset,
\* the child offsets and the pivots from one round to the next.  The
\* rounds are split in halves, and the first half is evaluated before the
\* second is entered, only to keep the evaluation shallow.
BuildChildren(iw, st, indexSize, maxElements, lo, hi) ==
    IF hi - lo = 1
    THEN LET child == buildBtreeNode(iw, st.nextIndex,
                                     ChildSize(indexSize, lo, maxElements),
                                     st.file, maxElements, st.lastLeafLinkOffset)
         IN  [nextIndex |-> child.nextIndex, file |-> child.file,
              lastLeafLinkOffset |-> child.lastLeafLinkOffset,
              offsets |-> st.offsets \o U32(child.offset),
              pivots |-> IF lo < maxElements
                         THEN st.pivots \o iw[child.nextIndex].first \o <<0>>
                         ELSE st.pivots]
    ELSE LET mid == (lo + hi) \div 2
             left == BuildChildren(iw, st, indexSize, maxElements, lo, mid)
         IN  IF left.nextIndex >= st.nextIndex
             THEN BuildChildren(iw, left, indexSize, maxElements, mid, hi)
             ELSE left

\* buildBtreeNode: the offset of the node written, with the iterator, the
\* file and lastLeafLinkOffset as the call leaves them.
buildBtreeNode(iw, nextIndex, indexSize, file, maxElements, lastLeafLinkOffset) ==
    IF indexSize <= maxElements
    THEN LET saved == SaveNode(file, LeafData(iw, nextIndex, indexSize), TRUE,
                               lastLeafLinkOffset)
         IN  [offset |-> saved.offset, nextIndex |-> nextIndex + indexSize,
              file |-> saved.file, lastLeafLinkOffset |-> saved.lastLeafLinkOffset]
    ELSE LET built == BuildChildren(iw,
                          [nextIndex |-> nextIndex, file |-> file,
                           lastLeafLinkOffset |-> lastLeafLinkOffset,
                           offsets |-> <<>>, pivots |-> <<>>],
                          indexSize, maxElements, 0, maxElements + 1)
             saved == SaveNode(built.file,
                               U32(NodeMarker) \o built.offsets \o built.pivots,
                               FALSE, built.lastLeafLinkOffset)
         IN  [offset |-> saved.offset, nextIndex |-> built.nextIndex,
              file |-> saved.file, lastLeafLinkOffset |-> saved.lastLeafLinkOffset]

\* static_cast<size_t>( sqrt( static_cast<double>( n ) ) )
SqrtFloor(n) == CHOOSE r \in 0 .. n : r * r <= n /\ (r + 1) * (r + 1) > n

\* A fanout of the square root without the one added to it.
ChooseSqrtElements(indexSize) ==
    IF SqrtFloor(indexSize) < BtreeMinElements THEN BtreeMinElements
    ELSE IF SqrtFloor(indexSize) > BtreeMaxElements THEN BtreeMaxElements
    ELSE SqrtFloor(indexSize)

\* The fanout buildIndex chooses for indexSize entries.
ChooseMaxElements(indexSize) ==
    LET btreeMaxElements == SqrtFloor(indexSize) + 1
    IN  IF btreeMaxElements < BtreeMinElements THEN BtreeMinElements
        ELSE IF btreeMaxElements > BtreeMaxElements THEN BtreeMaxElements
        ELSE btreeMaxElements

\* A build that takes the entries of an empty key for entries to write.
SkipNoWords(iw, skipped) == skipped

\* The number of leading entries buildIndex skips: those with an empty key.
RECURSIVE SkipEmptyWords(_, _)
SkipEmptyWords(iw, skipped) ==
    IF Len(iw) - skipped > 0 /\ iw[skipped + 1].first = <<>>
    THEN SkipEmptyWords(iw, skipped + 1) ELSE skipped

\* What buildIndex does once the fanout is chosen: the tree is written
\* from the first entry whose key is not empty, and the IndexInfo returned
\* with the file as written.
BuildTree(iw, file, btreeMaxElements) ==
    LET skipped == SkipEmptyWords(iw, 0)
        indexSize == Len(iw) - skipped
        root == buildBtreeNode(iw, skipped + 1, indexSize, file, btreeMaxElements, 0)
    IN  [indexInfo |-> [btreeMaxElements |-> btreeMaxElements,
                        rootOffset |-> root.offset],
         file |-> root.file]

\* buildIndex
buildIndex(iw, file) ==
    BuildTree(iw, file, ChooseMaxElements(Len(iw) - SkipEmptyWords(iw, 0)))

(***************************************************************************)
(* The reader: readNode, findChainOffsetExactOrPrefix, readChain,          *)
(* antialias, findArticles                                                 *)
(***************************************************************************)

\* A null char const *.
Null == -1

\* BtreeIndex::readNode: the decompressed node, the file position it
\* leaves (just past the compressed image) and whether decompression
\* failed.
readNode(data, offset) ==
    LET uncompressedSize == ReadU32(data, offset)
        compressedSize == ReadU32(data, offset + 4)
        compressedData == SubSeq(data, offset + 9, offset + 8 + compressedSize)
        out == Uncompress(compressedData, uncompressedSize)
    IN  [out |-> out, pos |-> offset + 8 + compressedSize, failed |-> out = <<-1>>]

\* "adjust to the beginning of the string that we've hit"
RECURSIVE StringStart(_, _, _)
StringStart(buf, ptr, closestString) ==
    IF closestString > ptr /\ buf[closestString] # 0
    THEN StringStart(buf, ptr, closestString - 1)
    ELSE closestString

\* The binary search over the zero-separated pivots of an internal node,
\* which start at ptr: the pivot it ends on and the last comparison.
RECURSIVE PivotSearch(_, _, _, _, _)
PivotSearch(buf, ptr, target, window, windowSize) ==
    LET testPoint == window + windowSize \div 2
        closestString == StringStart(buf, ptr, testPoint)
        wordSize == strlen(buf, closestString)
        decoded == Utf8Decode(SubSeq(buf, closestString + 1, closestString + wordSize))
        compareResult == Compare(target, decoded)
        leftSize == closestString - window
        rightSize == windowSize - ((closestString - window) + wordSize + 1)
    IN  IF CantDecode(decoded)
        THEN [closestString |-> closestString, compareResult |-> 0, cantDecode |-> TRUE]
        ELSE IF compareResult = 0 \/ (compareResult < 0 /\ leftSize = 0)
                \/ (compareResult > 0 /\ rightSize = 0)
        THEN [closestString |-> closestString, compareResult |-> compareResult,
              cantDecode |-> FALSE]
        ELSE IF compareResult < 0
        THEN PivotSearch(buf, ptr, target, window, leftSize)
        ELSE PivotSearch(buf, ptr, target, closestString + wordSize + 1, rightSize)

\* "find entry number for the closestMatch string": the strings between
\* ptr and closestString.
EntryNumber(buf, ptr, closestString) ==
    Cardinality({i \in ptr + 1 .. closestString : buf[i] = 0})

\* A descent that takes the child left of the pivot it ended on whatever
\* the comparison said.
ChildOffsetLeft(buf, entry, compareResult) == ReadU32(buf, 4 + 4 * entry)

\* The child an internal node sends the search to.  The code assigns
\* offsets[ entry + 1 ] on equality and then runs an if / else on
\* compareResult < 0, whose else branch assigns offsets[ entry + 1 ] again.
ChildOffset(buf, entry, compareResult) ==
    IF compareResult < 0
    THEN ReadU32(buf, 4 + 4 * entry)
    ELSE ReadU32(buf, 4 + 4 * (entry + 1))

\* "Build an array containing all chain pointers"
RECURSIVE ChainOffsets(_, _, _)
ChainOffsets(buf, ptr, leafEntries) ==
    IF leafEntries = 0 THEN <<>>
    ELSE <<ptr>> \o ChainOffsets(buf, ptr + 4 + ReadU32(buf, ptr), leafEntries - 1)

\* What findChainOffsetExactOrPrefix hands back: the exception thrown
\* ("none" when it returns), the chain pointer and the buffer it points
\* into, with the out parameters and the file position and root cache as
\* the call leaves them.
Found(error, chainOffset, exactMatch, leaf, nextLeaf, pos, rootNode) ==
    [error |-> error, chainOffset |-> chainOffset, exactMatch |-> exactMatch,
     leaf |-> leaf, leafEnd |-> Len(leaf), nextLeaf |-> nextLeaf, pos |-> pos,
     rootNode |-> rootNode]

\* The binary search over the chains of a leaf.
RECURSIVE LeafSearch(_, _, _, _, _, _, _, _, _)
LeafSearch(data, buf, chainOffsets, target, nextLeaf, pos, rootNode, window, windowSize) ==
    LET chainToCheck == window + windowSize \div 2
        ptr == chainOffsets[chainToCheck + 1] + 4
        decoded == Utf8Decode(CStr(buf, ptr))
        foldedWord == apply(decoded)
        compareResult == Compare(target, foldedWord)
    IN  IF CantDecode(decoded)
        THEN Found("CantDecode", Null, FALSE, buf, nextLeaf, pos, rootNode)
        ELSE IF compareResult = 0
        THEN Found("none", ptr - 4, TRUE, buf, nextLeaf, pos, rootNode)
        ELSE IF compareResult < 0
        THEN IF windowSize \div 2 = 0
             THEN Found("none", ptr - 4, FALSE, buf, nextLeaf, pos, rootNode)
             ELSE LeafSearch(data, buf, chainOffsets, target, nextLeaf, pos,
                             rootNode, window, windowSize \div 2)
        ELSE IF windowSize - (windowSize \div 2 + 1) = 0
        THEN IF chainToCheck = Len(chainOffsets) - 1
             THEN IF nextLeaf # 0
                  THEN LET next == readNode(data, nextLeaf)
                       IN  IF next.failed
                           THEN Found("FailedToDecompressNode", Null, FALSE, buf,
                                      nextLeaf, next.pos, rootNode)
                           ELSE Found("none", 4, FALSE, next.out,
                                      ReadU32(data, next.pos), next.pos + 4,
                                      rootNode)
                  ELSE Found("none", Null, FALSE, buf, nextLeaf, pos, rootNode)
             ELSE Found("none", chainOffsets[chainToCheck + 2], FALSE, buf,
                        nextLeaf, pos, rootNode)
        ELSE LeafSearch(data, buf, chainOffsets, target, nextLeaf, pos, rootNode,
                        chainToCheck + 1, windowSize - (windowSize \div 2 + 1))

\* The descent loop of findChainOffsetExactOrPrefix at the node held in
\* buf, which was read from currentNodeOffset.
RECURSIVE Descend(_, _, _, _, _, _, _, _)
Descend(data, indexNodeSize, rootOffset, rootNode, target, buf, currentNodeOffset, pos) ==
    LET leafEntries == ReadU32(buf, 0)
    IN  IF leafEntries = NodeMarker
        THEN LET ptr == 4 + (indexNodeSize + 1) * 4
                 hit == PivotSearch(buf, ptr, target, ptr, Len(buf) - ptr)
                 entry == EntryNumber(buf, ptr, hit.closestString)
                 child == ChildOffset(buf, entry, hit.compareResult)
                 extLeaf == readNode(data, child)
             IN  IF hit.cantDecode
                 THEN Found("CantDecode", Null, FALSE, buf, 0, pos, rootNode)
                 ELSE IF extLeaf.failed
                 THEN Found("FailedToDecompressNode", Null, FALSE, buf, 0,
                            extLeaf.pos, rootNode)
                 ELSE Descend(data, indexNodeSize, rootOffset, rootNode, target,
                              extLeaf.out, child, extLeaf.pos)
        ELSE LET isRoot == currentNodeOffset = rootOffset
                 nextLeaf == IF isRoot THEN 0 ELSE ReadU32(data, pos)
                 posAfter == IF isRoot THEN pos ELSE pos + 4
             IN  IF leafEntries = 0
                 THEN IF isRoot
                      THEN Found("none", Null, FALSE, buf, nextLeaf, posAfter, rootNode)
                      ELSE Found("CorruptedChainData", Null, FALSE, buf, nextLeaf,
                                 posAfter, rootNode)
                 ELSE LeafSearch(data, buf, ChainOffsets(buf, 4, leafEntries),
                                 target, nextLeaf, posAfter, rootNode,
                                 0, leafEntries)

\* BtreeIndex::findChainOffsetExactOrPrefix on the reader idx (its bound
\* IndexInfo and root cache) and the file.
findChainOffsetExactOrPrefix(idx, file, target) ==
    IF ~idx.opened
    THEN Found("IndexWasNotOpened", Null, FALSE, <<>>, 0, file.pos, idx.rootNode)
    ELSE LET loaded == IF idx.rootNodeLoaded
                       THEN [out |-> idx.rootNode, pos |-> file.pos, failed |-> FALSE]
                       ELSE readNode(file.data, idx.rootOffset)
         IN  IF loaded.failed
             THEN Found("FailedToDecompressNode", Null, FALSE, <<>>, 0, loaded.pos,
                        idx.rootNode)
             ELSE Descend(file.data, idx.indexNodeSize, idx.rootOffset, loaded.out,
                          target, loaded.out, idx.rootOffset, loaded.pos)

\* The records of a chain from ptr on, chainSize bytes being left to read.
RECURSIVE ChainRecords(_, _, _)
ChainRecords(buf, ptr, chainSize) ==
    IF chainSize = 0 THEN [result |-> <<>>, ptr |-> ptr, corrupted |-> FALSE]
    ELSE LET str == CStr(buf, ptr)
             prefix == CStr(buf, ptr + Len(str) + 1)
             recordSize == Len(str) + 1 + Len(prefix) + 1 + 4
             articleOffset == ReadU32(buf, ptr + Len(str) + 1 + Len(prefix) + 1)
             link == WordArticleLink(str, articleOffset, prefix)
         IN  IF chainSize < recordSize
             THEN [result |-> <<link>>, ptr |-> ptr + recordSize, corrupted |-> TRUE]
             ELSE LET rest == ChainRecords(buf, ptr + recordSize, chainSize - recordSize)
                  IN  [result |-> <<link>> \o rest.result, ptr |-> rest.ptr,
                       corrupted |-> rest.corrupted]

\* BtreeIndex::readChain: the chain at ptr and ptr moved past it;
\* corrupted stands for exCorruptedChainData.
readChain(buf, ptr) == ChainRecords(buf, ptr + 4, ReadU32(buf, ptr))

\* An antialias that discards nothing.
AntialiasKeepsAll(str, link) == TRUE

\* Whether antialias keeps a record for the query str.
AntialiasKeeps(str, link) ==
    applySimpleCaseOnly(Utf8Decode(link.prefix \o link.word))
        = applySimpleCaseOnly(str)

\* A merge that leaves the record as it was stored.
MergePrefixKept(link) == link

\* The merge antialias applies to a record it keeps.
MergePrefix(link) ==
    IF link.prefix # <<>>
    THEN WordArticleLink(link.prefix \o link.word, link.articleOffset, <<>>)
    ELSE link

\* BtreeIndex::antialias
RECURSIVE antialias(_, _)
antialias(str, chain) ==
    IF chain = <<>> THEN <<>>
    ELSE (IF AntialiasKeeps(str, Head(chain)) THEN <<MergePrefix(Head(chain))>>
          ELSE <<>>) \o antialias(str, Tail(chain))

\* BtreeIndex::findArticles: the result, the exception thrown and the
\* reader's file position and root cache after the call.
findArticles(idx, file, str) ==
    LET folded == apply(str)
        found == findChainOffsetExactOrPrefix(idx, file, folded)
        chain == readChain(found.leaf, found.chainOffset)
    IN  IF found.error # "none"
        THEN [result |-> <<>>, error |-> found.error, found |-> found]
        ELSE IF found.chainOffset # Null /\ found.exactMatch
        THEN IF chain.corrupted
             THEN [result |-> <<>>, error |-> "CorruptedChainData", found |-> found]
             ELSE [result |-> antialias(str, chain.result), error |-> "none",
                   found |-> found]
        ELSE [result |-> <<>>, error |-> "none", found |-> found]

(***************************************************************************)
(* State                                                                   *)
(***************************************************************************)

VARIABLES
    indexedWords,   \* the IndexedWords being filled, then built from
    singles,        \* history: the <<word, articleOffset>> given to addSingleWord
    file,           \* the index file: [data, pos]
    indexInfo,      \* the IndexInfo buildIndex returned
    idx,            \* the BtreeIndex reader: binding and root cache
    phase,          \* "filling", "built" (index written), "opened" (reader bound)
    lookup,         \* the last findArticles call and what it returned
    req,            \* the BtreeWordSearchRequest alive, if any, and its worker
    adds,           \* history: the addWord / addSingleWord calls counted as made
    idxFileMutex,   \* the thread that holds the index file's mutex, 0 when free
    workers         \* the threads that look up concurrently, when there are any

vars ==
    <<indexedWords, singles, file, indexInfo, idx, phase, lookup, req, adds,
      idxFileMutex, workers>>

\* The headwords a dictionary hands to addWord and addSingleWord: two
\* tokens, an upper case letter, a letter with a diacritic, the empty word.
Headwords ==
    { W(<<"a", " ", "b">>), W(<<"A">>), W(<<"a'">>), <<>> }

\* The article offset handed over with the first of the calls explored;
\* each later call gets the next offset.
FirstArticleOffset == 257

\* The number of addWord / addSingleWord calls explored on top of the
\* initial content.
MaxAdds == 2

\* The words of a bulk load: every string of 1 .. depth + 1 letters out of
\* a, b, c that starts with prefix, in ascending order.
RECURSIVE BulkWordsFrom(_, _)
BulkWordsFrom(prefix, depth) ==
    IF depth = 0 THEN <<prefix>>
    ELSE <<prefix>> \o Flatten([c \in 1 .. 3 |->
                                   BulkWordsFrom(Append(prefix, 96 + c), depth - 1)])

BulkWords == Flatten([c \in 1 .. 3 |-> BulkWordsFrom(<<96 + c>>, 3)])

\* IndexedWords after addSingleWord( BulkWords[ i ], i ) for i = 1 .. n:
\* the words are distinct, folded already and in ascending order.
Bulk(n) ==
    [i \in 1 .. n |->
        [first |-> Utf8Encode(BulkWords[i]),
         second |-> <<WordArticleLink(Utf8Encode(BulkWords[i]), i, <<>>)>>]]

BulkSingles(n) == {<<BulkWords[i], i>> : i \in 1 .. n}

\* The smallest load that buildIndex writes as a tree with an internal
\* root, and the largest load explored.
MinBulk == BtreeMinElements + 1

MaxBulk == 100

BulkSizes == {0, MinBulk, MaxBulk}

\* The calls counted as made once n words are loaded: a bulk load is
\* followed by one more call at most.
BulkAdds(n) == IF n = 0 \/ MaxAdds = 0 THEN 0 ELSE MaxAdds - 1

NoIndexInfo == [btreeMaxElements |-> 0, rootOffset |-> 0]

\* BtreeIndex::BtreeIndex()
NewBtreeIndex ==
    [opened |-> FALSE, indexNodeSize |-> 0, rootOffset |-> 0,
     rootNodeLoaded |-> FALSE, rootNode |-> <<>>]

NoLookup == [op |-> "none"]

NoRequest == [pc |-> "none"]

Init ==
    /\ \E n \in BulkSizes :
          /\ indexedWords = Bulk(n)
          /\ singles = BulkSingles(n)
          /\ adds = BulkAdds(n)
    /\ file = [data |-> <<>>, pos |-> 0]
    /\ indexInfo = NoIndexInfo
    /\ idx = NewBtreeIndex
    /\ phase = "filling"
    /\ lookup = NoLookup
    /\ req = NoRequest
    /\ idxFileMutex = 0
    /\ workers = <<>>

(***************************************************************************)
(* Filling, building, opening                                              *)
(***************************************************************************)

AddWord(word, articleOffset) ==
    /\ phase = "filling"
    /\ adds < MaxAdds
    /\ indexedWords' = addWord(indexedWords, word, articleOffset)
    /\ adds' = adds + 1
    /\ UNCHANGED <<singles, file, indexInfo, idx, phase, lookup, req,
                 idxFileMutex, workers>>

AddSingleWord(word, articleOffset) ==
    /\ phase = "filling"
    /\ adds < MaxAdds
    /\ indexedWords' = addSingleWord(indexedWords, word, articleOffset)
    /\ singles' = singles \cup {<<word, articleOffset>>}
    /\ adds' = adds + 1
    /\ UNCHANGED <<file, indexInfo, idx, phase, lookup, req,
                 idxFileMutex, workers>>

BuildIndex ==
    /\ phase = "filling"
    /\ \E built \in {buildIndex(indexedWords, file)} :
          /\ indexInfo' = built.indexInfo
          /\ file' = built.file
    /\ phase' = "built"
    /\ UNCHANGED <<indexedWords, singles, idx, lookup, req, adds,
                 idxFileMutex, workers>>

\* BtreeIndex::openIndex
openIndex(info) ==
    [opened |-> TRUE, indexNodeSize |-> info.btreeMaxElements,
     rootOffset |-> info.rootOffset, rootNodeLoaded |-> FALSE, rootNode |-> <<>>]

OpenIndex ==
    /\ phase = "built"
    /\ idx' = openIndex(indexInfo)
    /\ phase' = "opened"
    /\ UNCHANGED <<indexedWords, singles, file, indexInfo, lookup, req, adds,
                 idxFileMutex, workers>>

(***************************************************************************)
(* Synchronous lookups                                                     *)
(***************************************************************************)

\* The entries buildIndex writes: those of IndexedWords whose key is not
\* empty, in order.
IndexEntries(iw) == SubSeq(iw, SkipEmptyWords(iw, 0) + 1, Len(iw))

\* The keys buildIndex writes: those of IndexedWords that are not empty,
\* in order.
IndexKeys(iw) ==
    LET skipped == SkipEmptyWords(iw, 0)
    IN  [i \in 1 .. Len(iw) - skipped |-> iw[skipped + i].first]

\* The strings looked up first: each key of the index, each key followed
\* by a space (which is no key and sorts right after the key), and those
\* of FollowUps.
QueryStrings(iw) ==
    LET keys == IndexKeys(iw)
    IN  {Utf8Decode(keys[i]) : i \in DOMAIN keys}
            \cup {Utf8Decode(keys[i]) \o <<32>> : i \in DOMAIN keys}

\* The strings looked up at any time, also once the root is cached: one
\* below and one above every key, and some that fold.
FollowUps ==
    {<<>>, W(<<"z">>), W(<<"A">>), W(<<"A", " ", "B">>), W(<<"a'">>)}

\* The reader after a call of findChainOffsetExactOrPrefix that returned
\* found: the root is cached once it was read.
AfterDescent(reader, found) ==
    IF found.error = "IndexWasNotOpened"
       \/ (found.error = "FailedToDecompressNode" /\ found.leaf = <<>>)
    THEN reader
    ELSE [reader EXCEPT !.rootNodeLoaded = TRUE, !.rootNode = found.rootNode]

\* The chain at the pointer findChainOffsetExactOrPrefix returned.
LocatedChain(found) ==
    IF found.error = "none" /\ found.chainOffset # Null
    THEN readChain(found.leaf, found.chainOffset).result
    ELSE <<>>

FindArticles(str) ==
    /\ phase = "opened"
    /\ req.pc = "none"
    /\ \E call \in {findArticles(idx, file, str)} :
          /\ lookup' = [op |-> "findArticles", str |-> str,
                        result |-> call.result, error |-> call.error,
                        chainOffset |-> call.found.chainOffset,
                        exactMatch |-> call.found.exactMatch,
                        located |-> LocatedChain(call.found),
                        nextLeaf |-> call.found.nextLeaf,
                        cachedRoot |-> idx.rootNodeLoaded]
          /\ idx' = AfterDescent(idx, call.found)
          /\ file' = [file EXCEPT !.pos = call.found.pos]
    /\ UNCHANGED <<indexedWords, singles, indexInfo, phase, req, adds,
                 idxFileMutex, workers>>

Next ==
    \/ \E word \in Headwords : AddWord(word, FirstArticleOffset + adds)
    \/ \E word \in Headwords : AddSingleWord(word, FirstArticleOffset + adds)
    \/ BuildIndex
    \/ OpenIndex
    \/ \E str \in QueryStrings(indexedWords) :
          lookup.op = "none" /\ FindArticles(str)
    \/ \E str \in FollowUps : FindArticles(str)

Spec == Init /\ [][Next]_vars

(***************************************************************************)
(* BtreeWordSearchRequest and its worker.  A worker is the record of the   *)
(* request with the reader and the file it works on: [req, idx, file].     *)
(***************************************************************************)

\* BtreeWordSearchRequest::BtreeWordSearchRequest: the fields as
\* constructed, the locals of run() as yet unset, the runnable queued on
\* the thread pool.  finishCalls counts the calls of finish(); lastChain
\* is history: the number of records of the last chain that gave matches.
NewRequest(str, minLength, maxSuffixVariation, allowMiddleMatches, maxResults) ==
    [pc |-> "queued", str |-> str, maxResults |-> maxResults,
     minLength |-> minLength, maxSuffixVariation |-> maxSuffixVariation,
     allowMiddleMatches |-> allowMiddleMatches,
     isCancelled |-> 0, hasExited |-> 0, destroying |-> FALSE,
     finishCalls |-> 0, matches |-> <<>>, error |-> "none",
     folded |-> <<>>, initialFoldedSize |-> 0, charsLeftToChop |-> 0,
     chainOffset |-> Null, leaf |-> <<>>, nextLeaf |-> 0, lastChain |-> 0]

\* BtreeDictionary::prefixMatch
prefixMatch(str, maxResults) == NewRequest(str, 0, -1, TRUE, maxResults)

\* BtreeDictionary::stemmedMatch
stemmedMatch(str, minLength, maxSuffixVariation, maxResults) ==
    NewRequest(str, minLength, maxSuffixVariation, FALSE, maxResults)

\* charsLeftToChop as run() sets it before its loop.
CharsToChop(initialFoldedSize, minLength, maxSuffixVariation) ==
    IF maxSuffixVariation >= 0
    THEN LET left == initialFoldedSize - minLength
         IN  IF left < 0 THEN 0
             ELSE IF left > maxSuffixVariation THEN maxSuffixVariation
             ELSE left
    ELSE 0

\* A run() that starts its search without looking at the cancellation
\* flag.
RunBeginUnchecked(r) ==
    LET folded == apply(r.str)
    IN  [r EXCEPT !.folded = folded,
                  !.initialFoldedSize = Len(folded),
                  !.charsLeftToChop =
                      CharsToChop(Len(folded), r.minLength, r.maxSuffixVariation),
                  !.pc = "search"]

\* run() up to its loop.  BtreeDictionary::ensureInitDone() returns the
\* empty string, so the branch that sets the error string is not taken.
RunBegin(r) ==
    IF r.isCancelled # 0
    THEN [r EXCEPT !.finishCalls = @ + 1, !.pc = "returned"]
    ELSE LET folded == apply(r.str)
         IN  [r EXCEPT !.folded = folded,
                       !.initialFoldedSize = Len(folded),
                       !.charsLeftToChop =
                           CharsToChop(Len(folded), r.minLength, r.maxSuffixVariation),
                       !.pc = "search"]

\* The call of findChainOffsetExactOrPrefix that opens a round of run()'s
\* loop.  An exception leaves run() and ends the worker.
RunSearch(w) ==
    LET found == findChainOffsetExactOrPrefix(w.idx, w.file, w.req.folded)
    IN  [req |-> IF found.error # "none"
                 THEN [w.req EXCEPT !.pc = "aborted", !.error = found.error]
                 ELSE [w.req EXCEPT !.chainOffset = found.chainOffset,
                                    !.leaf = found.leaf,
                                    !.nextLeaf = found.nextLeaf,
                                    !.pc = IF found.chainOffset # Null
                                           THEN "chain" ELSE "chop"],
         idx |-> AfterDescent(w.idx, found),
         file |-> [w.file EXCEPT !.pos = found.pos]]

\* A chain that is neither exact nor a prefix match.
IsExactMatchOnly(resultFolded, folded) == resultFolded = folded

\* "Exact or prefix match"
IsPrefixMatch(resultFolded, folded) ==
    /\ Len(resultFolded) >= Len(folded)
    /\ SubSeq(resultFolded, 1, Len(folded)) = folded

\* A filter that lets middle matches through whatever was requested.
KeepsMatchWithMiddle(r, resultFolded, cx) ==
    r.maxSuffixVariation < 0
        \/ Len(resultFolded) - r.initialFoldedSize <= r.maxSuffixVariation

\* "Skip middle matches, if requested.  If suffix variation is specified,
\* make sure the string isn't larger than requested."
KeepsMatch(r, resultFolded, cx) ==
    /\ r.allowMiddleMatches \/ apply(Utf8Decode(cx.prefix)) = <<>>
    /\ r.maxSuffixVariation < 0
          \/ Len(resultFolded) - r.initialFoldedSize <= r.maxSuffixVariation

\* What a chain that matches adds to matches.
NewMatches(r, resultFolded, chain) ==
    LET Keeps(cx) == KeepsMatch(r, resultFolded, cx)
        kept == SelectSeq(chain, Keeps)
    IN  [i \in DOMAIN kept |-> Utf8Decode(kept[i].prefix \o kept[i].word)]

\* One round of the loop over chains.  A chain without records makes
\* chain[ 0 ] an access past the end; such a chain and a corrupted one end
\* the worker here.
RunChain(w) ==
    LET r == w.req
        chain == readChain(r.leaf, r.chainOffset)
        resultFolded == apply(Utf8Decode(chain.result[1].word))
        added == NewMatches(r, resultFolded, chain.result)
        fed == [r EXCEPT !.matches = @ \o added,
                         !.lastChain = IF added # <<>> THEN Len(chain.result) ELSE @,
                         !.chainOffset = chain.ptr]
        next == readNode(w.file.data, r.nextLeaf)
    IN  IF r.isCancelled # 0
        THEN [w EXCEPT !.req.pc = "chop"]
        ELSE IF chain.corrupted \/ chain.result = <<>>
        THEN [w EXCEPT !.req.pc = "aborted", !.req.error = "CorruptedChainData"]
        ELSE IF ~IsPrefixMatch(resultFolded, r.folded)
        THEN [w EXCEPT !.req.chainOffset = chain.ptr, !.req.pc = "chop"]
        ELSE IF Len(fed.matches) >= r.maxResults
        THEN [w EXCEPT !.req = [fed EXCEPT !.pc = "chop"]]
        ELSE IF chain.ptr < Len(r.leaf)
        THEN [w EXCEPT !.req = fed]
        ELSE IF r.nextLeaf = 0
        THEN [w EXCEPT !.req = [fed EXCEPT !.pc = "chop"]]
        ELSE IF next.failed
        THEN [w EXCEPT !.req = [fed EXCEPT !.pc = "aborted",
                                           !.error = "FailedToDecompressNode"],
                       !.file.pos = next.pos]
        ELSE [w EXCEPT !.req = [fed EXCEPT !.leaf = next.out,
                                           !.nextLeaf = ReadU32(w.file.data, next.pos),
                                           !.chainOffset = 4],
                       !.file.pos = next.pos + 4]

\* An end of run() that calls finish() only for a request that was not
\* cancelled.
RunEndSilent(r) ==
    IF r.charsLeftToChop # 0 /\ r.isCancelled = 0
    THEN [r EXCEPT !.charsLeftToChop = @ - 1,
                   !.folded = SubSeq(@, 1, Len(@) - 1),
                   !.pc = "search"]
    ELSE [r EXCEPT !.finishCalls = IF r.isCancelled = 0 THEN @ + 1 ELSE @,
                   !.pc = "returned"]

\* The end of a round of run()'s loop: another round with a character
\* chopped, or finish().
RunEnd(r) ==
    IF r.charsLeftToChop # 0 /\ r.isCancelled = 0
    THEN [r EXCEPT !.charsLeftToChop = @ - 1,
                   !.folded = SubSeq(@, 1, Len(@) - 1),
                   !.pc = "search"]
    ELSE [r EXCEPT !.finishCalls = @ + 1, !.pc = "returned"]

Running(w) == w.req.pc \in {"queued", "search", "chain", "chop"}

\* The next step of the worker thread.
WorkerStep(w) ==
    CASE w.req.pc = "queued" -> [w EXCEPT !.req = RunBegin(w.req)]
      [] w.req.pc = "search" -> RunSearch(w)
      [] w.req.pc = "chain"  -> RunChain(w)
      [] w.req.pc = "chop"   -> [w EXCEPT !.req = RunEnd(w.req)]
      [] OTHER -> w

\* 2^n steps of the worker with nothing in between, or as many as it has
\* left.
RECURSIVE RunSteps(_, _)
RunSteps(w, n) ==
    IF ~Running(w) THEN w
    ELSE IF n = 0 THEN WorkerStep(w)
    ELSE RunSteps(RunSteps(w, n - 1), n - 1)

\* The steps a worker is followed for when it runs alone: 2^MaxRunDepth.
MaxRunDepth == 10

\* The request r as its worker leaves it when nothing else happens
\* meanwhile.
RunAlone(r, reader, f) ==
    RunSteps([req |-> r, idx |-> reader, file |-> f], MaxRunDepth).req

\* The inputs of the queries explored.
QueryTargets ==
    {<<>>, W(<<"a">>), W(<<"a", "b">>), W(<<"a", "b", "d">>), W(<<"b">>),
     W(<<"z">>)}

MaxResults == 200

ResultCaps == {1, 2, MaxResults}

MaxMinLength == 2

MaxVariation == 2

\* The number of cancel() calls explored on one request.
MaxCancels == 1

PrefixMatch(str, maxResults) ==
    /\ phase = "opened"
    /\ req.pc = "none"
    /\ req' = prefixMatch(str, maxResults)
    /\ lookup' = NoLookup
    /\ UNCHANGED <<indexedWords, singles, file, indexInfo, idx, phase, adds,
                 idxFileMutex, workers>>

StemmedMatch(str, minLength, maxSuffixVariation, maxResults) ==
    /\ phase = "opened"
    /\ req.pc = "none"
    /\ req' = stemmedMatch(str, minLength, maxSuffixVariation, maxResults)
    /\ lookup' = NoLookup
    /\ UNCHANGED <<indexedWords, singles, file, indexInfo, idx, phase, adds,
                 idxFileMutex, workers>>

\* The worker thread takes its next step.
Work ==
    /\ req.pc \in {"queued", "search", "chain", "chop"}
    /\ \E w \in {WorkerStep([req |-> req, idx |-> idx, file |-> file])} :
          /\ req' = w.req
          /\ idx' = w.idx
          /\ file' = w.file
    /\ UNCHANGED <<indexedWords, singles, indexInfo, phase, lookup, adds,
                 idxFileMutex, workers>>

\* ~BtreeWordSearchRunnable, after run() has returned
RunnableDestroyed ==
    /\ req.pc = "returned"
    /\ req' = [req EXCEPT !.hasExited = @ + 1, !.pc = "exited"]
    /\ UNCHANGED <<indexedWords, singles, file, indexInfo, idx, phase, lookup, adds,
                 idxFileMutex, workers>>

\* BtreeWordSearchRequest::cancel
Cancel ==
    /\ req.pc # "none"
    /\ ~req.destroying
    /\ req.isCancelled < MaxCancels
    /\ req' = [req EXCEPT !.isCancelled = @ + 1]
    /\ UNCHANGED <<indexedWords, singles, file, indexInfo, idx, phase, lookup, adds,
                 idxFileMutex, workers>>

\* ~BtreeWordSearchRequest up to hasExited.acquire()
DestroyBegin ==
    /\ req.pc # "none"
    /\ ~req.destroying
    /\ req' = [req EXCEPT !.isCancelled = @ + 1, !.destroying = TRUE]
    /\ UNCHANGED <<indexedWords, singles, file, indexInfo, idx, phase, lookup, adds,
                 idxFileMutex, workers>>

\* hasExited.acquire() returns and the request is gone.
DestroyEnd ==
    /\ req.pc # "none"
    /\ req.destroying
    /\ req.hasExited > 0
    /\ req' = NoRequest
    /\ UNCHANGED <<indexedWords, singles, file, indexInfo, idx, phase, lookup, adds,
                 idxFileMutex, workers>>

\* The dictionaries queried: none, one whose only key is empty, three keys
\* in a root leaf, and a bulk load with a headword of two tokens and one in
\* upper case added.
EmptyKeyOnly == addSingleWord(<<>>, <<>>, 1)

ThreeKeys ==
    addWord(addWord(addWord(<<>>, W(<<"a">>), 1), W(<<"a", "b">>), 2),
            W(<<"a", "b", "c">>), 3)

BulkWithMiddle ==
    addWord(addWord(Bulk(MaxBulk), W(<<"a", " ", "b">>), FirstArticleOffset),
            W(<<"A">>), FirstArticleOffset + 1)

InitQuery ==
    /\ indexedWords \in {<<>>, EmptyKeyOnly, ThreeKeys, BulkWithMiddle}
    /\ singles = {}
    /\ file = [data |-> <<>>, pos |-> 0]
    /\ indexInfo = NoIndexInfo
    /\ idx = NewBtreeIndex
    /\ phase = "filling"
    /\ lookup = NoLookup
    /\ req = NoRequest
    /\ idxFileMutex = 0
    /\ workers = <<>>
    /\ adds = MaxAdds

NextQuery ==
    \/ BuildIndex
    \/ OpenIndex
    \/ \E str \in FollowUps : lookup.op = "none" /\ FindArticles(str)
    \/ \E str \in QueryTargets, maxResults \in ResultCaps :
          PrefixMatch(str, maxResults)
    \/ \E str \in QueryTargets, minLength \in {0, MaxMinLength},
          maxSuffixVariation \in 0 .. MaxVariation, maxResults \in ResultCaps :
          StemmedMatch(str, minLength, maxSuffixVariation, maxResults)
    \/ Work
    \/ RunnableDestroyed
    \/ Cancel
    \/ DestroyBegin
    \/ DestroyEnd

SpecQuery == InitQuery /\ [][NextQuery]_vars

(***************************************************************************)
(* Round trip of buildIndex, openIndex and findArticles                    *)
(***************************************************************************)

\* A chain with the prefix of each record prepended to its word.
Merged(chain) ==
    [i \in DOMAIN chain |->
        WordArticleLink(chain[i].prefix \o chain[i].word,
                        chain[i].articleOffset, <<>>)]

\* The records of chain whose full headword differs from the key k in
\* letter case at most.
SameUpToCase(k, chain) ==
    LET Same(link) == applySimpleCaseOnly(Utf8Decode(link.prefix \o link.word))
                          = applySimpleCaseOnly(Utf8Decode(k))
    IN  SelectSeq(chain, Same)

\* The last call was findArticles( k ) for the key k of IndexedWords.
LookedUpKey == 
    /\ lookup.op = "findArticles"
    /\ HasKey(indexedWords, Utf8Encode(lookup.str))

\* C1 as stated: findArticles( k ) for a key k of the mapping returns the
\* whole chain inserted under k, same records, same order, same offsets,
\* each prefix prepended to its word.
C1_WholeChainReturned ==
    LookedUpKey =>
        /\ lookup.error = "none"
        /\ lookup.result = Merged(ChainOf(indexedWords, Utf8Encode(lookup.str)))

\* C1 amended: findArticles( k ) for a key k that is not empty returns, in
\* the order of the chain inserted under k and with the same offsets, the
\* records of that chain whose full headword (prefix + word) equals k up
\* to letter case, each with its prefix prepended to word and prefix
\* empty; the other records of the chain (middle matches, headwords with
\* diacritics) are not returned.
C1_RoundTripUpToAntialias ==
    (LookedUpKey /\ lookup.str # <<>>) =>
        /\ lookup.error = "none"
        /\ lookup.result =
               Merged(SameUpToCase(Utf8Encode(lookup.str),
                                   ChainOf(indexedWords, Utf8Encode(lookup.str))))

\* A key of a tree with an internal root was looked up and only part of
\* its chain came back.
C1_Witness ==
    /\ LookedUpKey
    /\ ReadU32(idx.rootNode, 0) = NodeMarker
    /\ lookup.result # <<>>
    /\ Len(lookup.result) < Len(ChainOf(indexedWords, Utf8Encode(lookup.str)))

(***************************************************************************)
(* Links given to addSingleWord                                            *)
(***************************************************************************)

\* C2 as stated, for the words whose folded key is not empty: once the
\* index is built and opened, the chain found by exact lookup of
\* Folding::apply( w ) holds the record ( w, empty prefix, off ) for every
\* addSingleWord( w, off ) that was made, also when another call had
\* created the key before.
C2_SingleWordsRecoverable ==
    lookup.op = "findArticles" =>
        \A s \in singles :
            (apply(s[1]) # <<>> /\ apply(s[1]) = apply(lookup.str)) =>
                /\ lookup.exactMatch
                /\ \E i \in DOMAIN lookup.located :
                      lookup.located[i]
                          = WordArticleLink(Utf8Encode(s[1]), s[2], <<>>)

(***************************************************************************)
(* The contract of findChainOffsetExactOrPrefix                            *)
(***************************************************************************)

\* C3: for the folded target t, findChainOffsetExactOrPrefix returns the
\* chain whose key is t with exactMatch set when the index has that key;
\* otherwise, with exactMatch clear, the first chain in key order whose
\* key is greater than t, be it in the leaf the descent reached or the
\* first of the following leaf; and null exactly when no key is greater
\* than or equal to t (the tree is empty or t is above every key).
C3_ExactOrNextChain ==
    lookup.op = "findArticles" =>
        LET entries == IndexEntries(indexedWords)
            t == Utf8Encode(apply(lookup.str))
            n == LowerBound(entries, t)
        IN  /\ lookup.error = "none"
            /\ (lookup.chainOffset = Null) <=> (n = Len(entries))
            /\ n < Len(entries) =>
                  /\ lookup.located = entries[n + 1].second
                  /\ lookup.exactMatch <=> (entries[n + 1].first = t)
            /\ n = Len(entries) => ~lookup.exactMatch

\* A target between the last key of one leaf and the first key of the
\* next was looked up: the chain returned is the first of the following
\* leaf.
C3_Witness ==
    /\ lookup.op = "findArticles"
    /\ ReadU32(idx.rootNode, 0) = NodeMarker
    /\ ~lookup.exactMatch
    /\ lookup.chainOffset = 4
    /\ LowerBound(IndexEntries(indexedWords), Utf8Encode(apply(lookup.str))) > 0
    /\ lookup.located # <<>>

(***************************************************************************)
(* Trees of any fanout: buildBtreeNode under fanouts below those that      *)
(* buildIndex chooses, which give trees of three and more levels for a few *)
(* keys (buildIndex itself needs more than 16 million keys for that).      *)
(***************************************************************************)

\* The key counts and fanouts explored, and the length of what the file
\* holds before the tree.
MaxNodeKeys == 30

MinFanout == 2

MaxFanout == 3

MaxHeader == 4

InitNode ==
    /\ \E n \in 0 .. MaxNodeKeys :
          /\ indexedWords = Bulk(n)
          /\ singles = BulkSingles(n)
    /\ \E h \in {0, MaxHeader} :
          file = [data |-> [i \in 1 .. h |-> 0], pos |-> h]
    /\ indexInfo = NoIndexInfo
    /\ idx = NewBtreeIndex
    /\ phase = "filling"
    /\ lookup = NoLookup
    /\ req = NoRequest
    /\ idxFileMutex = 0
    /\ workers = <<>>
    /\ adds = MaxAdds

\* The steps of buildIndex with the fanout given instead of chosen.
BuildNode(maxElements) ==
    /\ phase = "filling"
    /\ \E built \in {BuildTree(indexedWords, file, maxElements)} :
          /\ indexInfo' = built.indexInfo
          /\ file' = built.file
    /\ phase' = "built"
    /\ UNCHANGED <<indexedWords, singles, idx, lookup, req, adds,
                 idxFileMutex, workers>>

NextNode ==
    \/ \E maxElements \in MinFanout .. MaxFanout : BuildNode(maxElements)
    \/ BuildIndex
    \/ OpenIndex
    \/ \E str \in QueryStrings(indexedWords) :
          lookup.op = "none" /\ FindArticles(str)
    \/ \E str \in FollowUps : FindArticles(str)

SpecNode == InitNode /\ [][NextNode]_vars

(***************************************************************************)
(* Leaf linkage                                                            *)
(***************************************************************************)

\* The offsets of the leaves below the node at offset, left to right.
RECURSIVE TreeLeaves(_, _, _)
TreeLeaves(data, maxElements, offset) ==
    LET node == readNode(data, offset).out
    IN  IF ReadU32(node, 0) = NodeMarker
        THEN Flatten([x \in 1 .. maxElements + 1 |->
                         TreeLeaves(data, maxElements, ReadU32(node, 4 * x))])
        ELSE <<offset>>

\* The forward link of the leaf at offset: the word after its image.
ForwardLink(data, offset) == ReadU32(data, readNode(data, offset).pos)

\* The leaves met from the leaf at offset on by following forward links,
\* count of them at most.
RECURSIVE LeafWalk(_, _, _)
LeafWalk(data, offset, count) ==
    IF count = 0 THEN <<>>
    ELSE IF ForwardLink(data, offset) = 0 THEN <<offset>>
    ELSE <<offset>> \o LeafWalk(data, ForwardLink(data, offset), count - 1)

\* The chains of the leaf at offset, in the order they lie in it.
LeafChains(data, offset) ==
    LET node == readNode(data, offset).out
        chainOffsets == ChainOffsets(node, 4, ReadU32(node, 0))
    IN  [i \in DOMAIN chainOffsets |-> readChain(node, chainOffsets[i]).result]

\* C7: in the file buildIndex wrote, following the forward links from the
\* leftmost leaf visits the leaves of the tree left to right, each once;
\* the chains read on the way are those of the keys in sorted order, none
\* missing or repeated; each link holds the offset of the leaf written
\* next, which lies further in the file; only the last leaf's link is 0.
C7_LeafLinkage ==
    phase = "built" =>
        LET leaves == TreeLeaves(file.data, indexInfo.btreeMaxElements,
                                 indexInfo.rootOffset)
            walk == LeafWalk(file.data, leaves[1], Len(leaves) + 1)
            entries == IndexEntries(indexedWords)
            chains == Flatten([i \in DOMAIN walk |-> LeafChains(file.data, walk[i])])
        IN  /\ walk = leaves
            /\ \A i \in 1 .. Len(leaves) - 1 :
                  /\ ForwardLink(file.data, leaves[i]) = leaves[i + 1]
                  /\ leaves[i] < leaves[i + 1]
            /\ ForwardLink(file.data, leaves[Len(leaves)]) = 0
            /\ chains = [i \in DOMAIN entries |-> entries[i].second]
            /\ \A i \in DOMAIN chains :
                  Utf8Encode(apply(Utf8Decode(chains[i][1].word))) = entries[i].first

\* A tree of three levels at least was written: the root's leftmost child
\* is an internal node, and the file began with a header.
C7_Witness ==
    /\ phase = "built"
    /\ indexInfo.rootOffset # 0
    /\ ReadU32(readNode(file.data, indexInfo.rootOffset).out, 0) = NodeMarker
    /\ ReadU32(readNode(file.data,
                        ReadU32(readNode(file.data, indexInfo.rootOffset).out, 4)).out,
               0) = NodeMarker
    /\ file.data[1] = 0
    /\ Len(TreeLeaves(file.data, indexInfo.btreeMaxElements, indexInfo.rootOffset)) > 9

(***************************************************************************)
(* Prefix and stemmed queries                                              *)
(***************************************************************************)

\* The request has its result: finish() was called.
Finished == req.pc \in {"returned", "exited"}

\* The full headwords (prefix + word) of the records of a chain.
FullHeadwords(chain) ==
    [i \in DOMAIN chain |-> Utf8Decode(chain[i].prefix \o chain[i].word)]

\* The full headwords of every record of every chain of the index whose
\* key starts with the key t, in key order.
HeadwordsUnder(iw, t) ==
    LET entries == IndexEntries(iw)
    IN  Flatten([i \in DOMAIN entries |->
                    IF StartsWith(entries[i].first, t)
                    THEN FullHeadwords(entries[i].second)
                    ELSE <<>>])

\* C4: a prefixMatch( w, R ) that was never cancelled and whose R is
\* larger than the number of matching records finishes with the full
\* headwords of every record of every chain whose folded key starts with
\* Folding::apply( w ), each once, and nothing else.
C4_PrefixMatchComplete ==
    (/\ Finished
     /\ req.allowMiddleMatches
     /\ req.isCancelled = 0
     /\ req.maxResults
            > Len(HeadwordsUnder(indexedWords, Utf8Encode(apply(req.str))))) =>
        req.matches = HeadwordsUnder(indexedWords, Utf8Encode(apply(req.str)))

\* A prefix query finished whose matches come from more chains than a
\* leaf of the tree holds, so from several leaves.
C4_Witness ==
    /\ Finished
    /\ req.allowMiddleMatches
    /\ req.isCancelled = 0
    /\ req.str = W(<<"a">>)
    /\ ReadU32(idx.rootNode, 0) = NodeMarker
    /\ req.maxResults > Len(req.matches)
    /\ Len(req.matches) > 8

\* C5 as stated: at finish() the matches exceed the cap R by less than the
\* number of records of the last chain appended, whatever minLength and
\* maxSuffixVariation are.
C5_OvershootBelowOneChain ==
    (Finished /\ Len(req.matches) > req.maxResults) =>
        Len(req.matches) - req.maxResults < req.lastChain

\* The records of a chain that are no middle matches.
WholeHeadwords(chain) ==
    LET Whole(link) == apply(Utf8Decode(link.prefix)) = <<>>
    IN  SelectSeq(chain, Whole)

\* A stemmed query with no suffix variation finished without being
\* cancelled.
FinishedUnvaried ==
    /\ Finished
    /\ ~req.allowMiddleMatches
    /\ req.maxSuffixVariation = 0
    /\ req.isCancelled = 0

\* C6 as stated: stemmedMatch( w, minLength, 0, R ) finishes with the
\* matches prefixMatch( w, R ) finishes with.
C6_SameAsPrefixMatch ==
    FinishedUnvaried =>
        req.matches = RunAlone(prefixMatch(req.str, req.maxResults), idx, file).matches

\* C6 amended: stemmedMatch( w, minLength, 0, R ) chops no character and
\* finishes with the full headwords of the records that are no middle
\* matches in the chain whose key is Folding::apply( w ), in chain order,
\* and with nothing when the index has no such key: chains of longer keys
\* that start with the target give no match, unlike in prefixMatch.
C6_UnvariedIsExactKey ==
    FinishedUnvaried =>
        /\ req.folded = apply(req.str)
        /\ req.matches =
               FullHeadwords(WholeHeadwords(
                   ChainOf(IndexEntries(indexedWords), Utf8Encode(apply(req.str)))))

\* A stemmed query with no suffix variation finished with a match, leaving
\* out a middle match of the chain of its key and the chains of the longer
\* keys.
C6_Witness ==
    /\ FinishedUnvaried
    /\ req.matches # <<>>
    /\ Len(req.matches)
           < Len(ChainOf(IndexEntries(indexedWords), Utf8Encode(apply(req.str))))
    /\ Len(HeadwordsUnder(indexedWords, Utf8Encode(apply(req.str))))
           > Len(ChainOf(IndexEntries(indexedWords), Utf8Encode(apply(req.str))))

(***************************************************************************)
(* The empty index                                                         *)
(***************************************************************************)

\* C9: when IndexedWords is empty or holds the empty key only, buildIndex
\* writes one leaf with the count word 0, which is the root; findArticles,
\* prefixMatch and stemmedMatch then end with an empty result and no
\* error, and the file is read up to the end of the root's image and not
\* into the forward link after it.
C9_EmptyIndex ==
    (\A i \in DOMAIN indexedWords : indexedWords[i].first = <<>>) =>
        /\ phase \in {"built", "opened"} =>
              /\ readNode(file.data, indexInfo.rootOffset).out = U32(0)
              /\ Len(file.data) = readNode(file.data, indexInfo.rootOffset).pos + 4
        /\ lookup.op = "findArticles" =>
              lookup.result = <<>> /\ lookup.error = "none"
        /\ req.pc # "none" =>
              req.matches = <<>> /\ req.error = "none" /\ req.pc # "aborted"
        /\ idx.rootNodeLoaded =>
              file.pos = readNode(file.data, indexInfo.rootOffset).pos

\* On an index built from the empty key only, a lookup was made and a
\* query has finished.
C9_Witness ==
    /\ indexedWords # <<>>
    /\ \A i \in DOMAIN indexedWords : indexedWords[i].first = <<>>
    /\ Finished
    /\ req.finishCalls = 1
    /\ idx.rootNodeLoaded

(***************************************************************************)
(* The cap on middle matches: addWord on chains that are about full        *)
(***************************************************************************)

\* addWord( word, first + i ) for i = lo .. hi - 1 in turn, the first half
\* of the calls evaluated before the second is entered.
RECURSIVE AddWords(_, _, _, _, _)
AddWords(iw, word, first, lo, hi) ==
    IF hi - lo <= 0 THEN iw
    ELSE IF hi - lo = 1 THEN addWord(iw, word, first + lo)
    ELSE LET mid == (lo + hi) \div 2
             left == AddWords(iw, word, first, lo, mid)
         IN  IF Len(left) >= 0 THEN AddWords(left, word, first, mid, hi) ELSE left

\* The article offsets of the calls that fill the chains.
CapFillOffset == 2000

\* The calls that fill the chains: up to MaxCapShort calls short of the
\* cap on the chain of the second token.
MaxCapShort == 2

\* The headwords added to the filled chains: two tokens, the second token
\* alone in both cases, a headword that starts with punctuation, two
\* tokens with another first one, and a word of its own.
CapWords ==
    { W(<<"a", " ", "b">>), W(<<"b">>), W(<<"B">>), W(<<"-", "b">>),
      W(<<"A", " ", "b">>), W(<<"z">>) }

InitCap ==
    /\ \E short \in 0 .. MaxCapShort :
          indexedWords = AddWords(<<>>, W(<<"a", " ", "b">>), CapFillOffset,
                                  0, MaxMiddleMatchChain - short)
    /\ singles = {}
    /\ file = [data |-> <<>>, pos |-> 0]
    /\ indexInfo = NoIndexInfo
    /\ idx = NewBtreeIndex
    /\ phase = "filling"
    /\ lookup = NoLookup
    /\ req = NoRequest
    /\ idxFileMutex = 0
    /\ workers = <<>>
    /\ adds = 0

NextCap == \E word \in CapWords : AddWord(word, FirstArticleOffset + adds)

SpecCap == InitCap /\ [][NextCap]_vars

\* The records of a chain that come from middle-match insertions: those
\* with a prefix.
MiddleCount(chain) ==
    Cardinality({i \in DOMAIN chain : chain[i].prefix # <<>>})

\* The headword without the whitespace around it.
Trimmed(word) ==
    LET wordBegin == SkipLeadingWhitespace(word, 0)
    IN  Chars(word, wordBegin,
              SkipTrailingWhitespace(word, wordBegin, Len(word) - wordBegin))

\* addWord inserts the whole headword: it has a first character, which is
\* no punctuation.
HasWholeInsertion(word) ==
    Trimmed(word) # <<>> /\ ~isPunct(Trimmed(word)[1])

\* The call addWord( word, articleOffset ) of this step appended the whole
\* headword to the chain of its folded key.
WholeHeadwordAppended(word, articleOffset) ==
    LET key == Utf8Encode(apply(Trimmed(word)))
    IN  ChainOf(indexedWords', key)
            = Append(ChainOf(indexedWords, key),
                     WordArticleLink(Utf8Encode(Trimmed(word)), articleOffset, <<>>))

\* C10: after any addWord calls the chain of every folded key holds at
\* most 1024 records from middle-match insertions, and every call appends
\* its whole headword to the chain of its key whatever the size of that
\* chain.
C10_MiddleMatchCap ==
    /\ [](\A i \in DOMAIN indexedWords :
              MiddleCount(indexedWords[i].second) <= 1024)
    /\ [][\A word \in CapWords :
              (AddWord(word, FirstArticleOffset + adds) /\ HasWholeInsertion(word))
                  => WholeHeadwordAppended(word, FirstArticleOffset + adds)]_vars

\* A chain holds 1024 middle-match records and whole headwords on top of
\* them, and a further middle match was not appended to it.
C10_Witness ==
    /\ adds = MaxAdds
    /\ \E i \in DOMAIN indexedWords :
          /\ MiddleCount(indexedWords[i].second) = 1024
          /\ Len(indexedWords[i].second) > 1024
    /\ \E i \in DOMAIN indexedWords :
          /\ MiddleCount(indexedWords[i].second) = 0
          /\ Len(indexedWords[i].second) > 1024

(***************************************************************************)
(* A tree of 5,000 keys                                                    *)
(***************************************************************************)

\* The number of keys loaded, and the step from one key looked up to the
\* next.
BigKeys == 5000

BigStride == 40

\* "k00000", "k00001", ...: the letter k and five decimal digits.
BigKey(i) ==
    <<107, 48 + ((i \div 10000) % 10), 48 + ((i \div 1000) % 10),
      48 + ((i \div 100) % 10), 48 + ((i \div 10) % 10), 48 + (i % 10)>>

\* IndexedWords after addSingleWord( BigKey( i ), i + 1 ) for i = 0 .. n - 1:
\* the keys are distinct, folded already and in ascending order.
Big(n) ==
    [i \in 1 .. n |->
        [first |-> Utf8Encode(BigKey(i - 1)),
         second |-> <<WordArticleLink(Utf8Encode(BigKey(i - 1)), i, <<>>)>>]]

BigQueries == {BigKey(i * BigStride) : i \in 0 .. (BigKeys - 1) \div BigStride}

InitBig ==
    /\ indexedWords = Big(BigKeys)
    /\ singles = {}
    /\ file = [data |-> <<>>, pos |-> 0]
    /\ indexInfo = NoIndexInfo
    /\ idx = NewBtreeIndex
    /\ phase = "filling"
    /\ lookup = NoLookup
    /\ req = NoRequest
    /\ idxFileMutex = 0
    /\ workers = <<>>
    /\ adds = MaxAdds

NextBig ==
    \/ BuildIndex
    \/ OpenIndex
    \/ \E str \in BigQueries : lookup.op = "none" /\ FindArticles(str)
    \/ \E str \in FollowUps : FindArticles(str)

SpecBig == InitBig /\ [][NextBig]_vars

\* The children of the internal node at offset are leaves, count of them,
\* each linked to the next and the last to none.
LeavesBelowRoot(data, maxElements, offset, count) ==
    LET root == readNode(data, offset).out
        leaves == [x \in 1 .. maxElements + 1 |-> ReadU32(root, 4 * x)]
    IN  /\ ReadU32(root, 0) = NodeMarker
        /\ Len(leaves) = count
        /\ \A x \in DOMAIN leaves :
              ReadU32(readNode(data, leaves[x]).out, 0) # NodeMarker
        /\ \A x \in 1 .. Len(leaves) - 1 :
              ForwardLink(data, leaves[x]) = leaves[x + 1]
        /\ ForwardLink(data, leaves[Len(leaves)]) = 0

\* C8 as stated: 5,000 distinct keys that are not empty give the fanout 71
\* and a tree of one internal root and 71 leaves, each leaf linked to the
\* next and the last to none.
C8_SeventyOneLeaves ==
    (phase = "built" /\ Len(indexedWords) = BigKeys) =>
        /\ indexInfo.btreeMaxElements = 71
        /\ LeavesBelowRoot(file.data, indexInfo.btreeMaxElements,
                           indexInfo.rootOffset, 71)

\* C8 amended: 5,000 distinct keys that are not empty give the fanout 71
\* and a tree of one internal root and 72 leaves (the fanout and the
\* rightmost child), each leaf linked to the next and the last to none.
C8_SeventyTwoLeaves ==
    (phase = "built" /\ Len(indexedWords) = BigKeys) =>
        /\ indexInfo.btreeMaxElements = 71
        /\ LeavesBelowRoot(file.data, indexInfo.btreeMaxElements,
                           indexInfo.rootOffset, 72)
        /\ Len(TreeLeaves(file.data, indexInfo.btreeMaxElements,
                          indexInfo.rootOffset)) = 72

\* The tree of the 5,000 keys is written, and its last key was found
\* through the root.
C8_Witness ==
    /\ Len(IndexEntries(indexedWords)) = 5000
    /\ phase = "opened"
    /\ lookup.op = "findArticles"
    /\ ReadU32(idx.rootNode, 0) = NodeMarker
    /\ lookup.str = BigKey(4960)
    /\ lookup.exactMatch
    /\ lookup.nextLeaf = 0

(***************************************************************************)
(* Concurrent lookups.  Several threads look up in one BtreeIndex: the     *)
(* workers of query requests and a caller of findArticles.  Each runs the  *)
(* code of its lookup step by step; a step ends where the thread takes a   *)
(* mutex or after one access to the index file, so that accesses of        *)
(* different threads interleave wherever the mutex lets them.  A step      *)
(* works on c, the thread's record w with what it shares with the others:  *)
(* [w, idx, file, mutex, rootReads].                                       *)
(***************************************************************************)

\* A mutex that excludes nobody.
MutexAlwaysFree(mutex) == TRUE

\* Mutex::Lock on idxFileMutex goes on when no thread holds the mutex.
MutexFree(mutex) == mutex = 0

\* A thread: the request r it works for (for findArticles only str is
\* used) with the locals of findChainOffsetExactOrPrefix (target, buf:
\* the node at hand, currentNodeOffset, exactMatch), the chain read last,
\* the result of findArticles and whether the thread holds the request's
\* dataMutex.  History: loadedEnd is the file position after the node this
\* thread read last, unguarded whether it touched the file without holding
\* idxFileMutex, strayLink whether it read a link word elsewhere than at
\* loadedEnd.
NewThread(kind, r) ==
    [kind |-> kind, pc |-> IF kind = "query" THEN "queued" ELSE "call",
     str |-> r.str, maxResults |-> r.maxResults, minLength |-> r.minLength,
     maxSuffixVariation |-> r.maxSuffixVariation,
     allowMiddleMatches |-> r.allowMiddleMatches,
     isCancelled |-> 0, hasExited |-> 0, destroying |-> FALSE,
     finishCalls |-> 0, matches |-> <<>>, error |-> "none",
     folded |-> <<>>, initialFoldedSize |-> 0, charsLeftToChop |-> 0,
     chainOffset |-> Null, leaf |-> <<>>, nextLeaf |-> 0, lastChain |-> 0,
     target |-> <<>>, buf |-> <<>>, currentNodeOffset |-> 0,
     exactMatch |-> FALSE, chain |-> <<>>, result |-> <<>>,
     dataMutex |-> FALSE,
     loadedEnd |-> 0, unguarded |-> FALSE, strayLink |-> FALSE]

\* No thread in this place.
NoThread == [pc |-> "none"]

\* A seek or read on idxFile by thread id.
FileAccess(c, id) == [c EXCEPT !.w.unguarded = @ \/ c.mutex # id]

\* nextLeaf = idxFile->read< uint32_t >(): the word at the file position.
\* A read past the end of the file, which File::Class reports by an
\* exception, is taken as a link to no leaf.
ReadLink(c, id) ==
    LET a == FileAccess(c, id)
    IN  [a EXCEPT !.w.nextLeaf = IF c.file.pos + 4 <= Len(c.file.data)
                                 THEN ReadU32(c.file.data, c.file.pos)
                                 ELSE 0,
                  !.w.strayLink = @ \/ c.file.pos # c.w.loadedEnd,
                  !.file.pos = @ + 4]

\* findChainOffsetExactOrPrefix returns or throws: its Mutex::Lock goes
\* out of scope.  An exception leaves run() without finish(); findArticles
\* passes it on to its caller.
DescentReturn(c, id, error, chainOffset, exactMatch) ==
    LET u == [c EXCEPT !.mutex = 0]
    IN  IF error # "none"
        THEN [u EXCEPT !.w.error = error,
                       !.w.pc = IF c.w.kind = "query" THEN "aborted" ELSE "done"]
        ELSE [u EXCEPT !.w.chainOffset = chainOffset,
                       !.w.exactMatch = exactMatch,
                       !.w.leaf = c.w.buf,
                       !.w.pc = IF c.w.kind # "query" THEN "result"
                                ELSE IF chainOffset # Null THEN "chain"
                                ELSE "chop"]

\* A descent that reads the root node from the file at every request.
DescentRootUncached(c, id) ==
    LET loaded == readNode(c.file.data, c.idx.rootOffset)
        a == [FileAccess(c, id) EXCEPT !.file.pos = loaded.pos,
                                       !.rootReads = @ + 1]
    IN  [a EXCEPT !.idx.rootNode = loaded.out,
                  !.idx.rootNodeLoaded = TRUE,
                  !.w.buf = loaded.out,
                  !.w.currentNodeOffset = c.idx.rootOffset,
                  !.w.loadedEnd = loaded.pos,
                  !.w.pc = "node"]

\* "Time to load our root node.  We do it only once, at the first request."
DescentRoot(c, id) ==
    IF c.idx.rootNodeLoaded
    THEN [c EXCEPT !.w.buf = c.idx.rootNode,
                   !.w.currentNodeOffset = c.idx.rootOffset,
                   !.w.pc = "node"]
    ELSE LET loaded == readNode(c.file.data, c.idx.rootOffset)
             a == [FileAccess(c, id) EXCEPT !.file.pos = loaded.pos,
                                            !.rootReads = @ + 1]
         IN  IF loaded.failed
             THEN DescentReturn(a, id, "FailedToDecompressNode", Null, FALSE)
             ELSE [a EXCEPT !.idx.rootNode = loaded.out,
                            !.idx.rootNodeLoaded = TRUE,
                            !.w.buf = loaded.out,
                            !.w.currentNodeOffset = c.idx.rootOffset,
                            !.w.loadedEnd = loaded.pos,
                            !.w.pc = "node"]

\* One round of the descent loop: from an internal node into the child
\* read from the file, or the search in a leaf after its link was read.
DescentNode(c, id) ==
    LET buf == c.w.buf
        leafEntries == ReadU32(buf, 0)
    IN  IF leafEntries = NodeMarker
        THEN LET ptr == 4 + (c.idx.indexNodeSize + 1) * 4
                 hit == PivotSearch(buf, ptr, c.w.target, ptr, Len(buf) - ptr)
                 entry == EntryNumber(buf, ptr, hit.closestString)
                 child == ChildOffset(buf, entry, hit.compareResult)
                 extLeaf == readNode(c.file.data, child)
                 a == [FileAccess(c, id) EXCEPT !.file.pos = extLeaf.pos]
             IN  IF hit.cantDecode
                 THEN DescentReturn(c, id, "CantDecode", Null, FALSE)
                 ELSE IF extLeaf.failed
                 THEN DescentReturn(a, id, "FailedToDecompressNode", Null, FALSE)
                 ELSE [a EXCEPT !.w.buf = extLeaf.out,
                                !.w.currentNodeOffset = child,
                                !.w.loadedEnd = extLeaf.pos]
        ELSE LET isRoot == c.w.currentNodeOffset = c.idx.rootOffset
                 linked == IF isRoot THEN [c EXCEPT !.w.nextLeaf = 0]
                           ELSE ReadLink(c, id)
                 found == LeafSearch(<<>>, buf, ChainOffsets(buf, 4, leafEntries),
                                     c.w.target, 0, 0, <<>>, 0, leafEntries)
             IN  IF leafEntries = 0
                 THEN DescentReturn(linked, id,
                                    IF isRoot THEN "none" ELSE "CorruptedChainData",
                                    Null, FALSE)
                 ELSE IF found.error # "none"
                 THEN DescentReturn(linked, id, found.error, Null, FALSE)
                 ELSE IF found.chainOffset = Null /\ linked.w.nextLeaf # 0
                 THEN [linked EXCEPT !.w.pc = "nextleaf"]
                 ELSE DescentReturn(linked, id, "none", found.chainOffset,
                                    found.exactMatch)

\* readNode( nextLeaf, ... ) of the leaf search and of run(): the leaf that
\* follows, read into the thread's buffer.
ReadNextLeaf(c, id, then) ==
    LET next == readNode(c.file.data, c.w.nextLeaf)
        a == [FileAccess(c, id) EXCEPT !.file.pos = next.pos]
    IN  IF next.failed
        THEN DescentReturn(a, id, "FailedToDecompressNode", Null, FALSE)
        ELSE [a EXCEPT !.w.buf = next.out, !.w.loadedEnd = next.pos,
                       !.w.pc = then]

\* A round of run()'s loop over chains up to the Mutex::Lock on dataMutex:
\* the cancellation test, readChain and the prefix test.
QueryChain(c) ==
    LET r == c.w
        chain == readChain(r.leaf, r.chainOffset)
    IN  IF r.isCancelled # 0
        THEN [c EXCEPT !.w.pc = "chop"]
        ELSE IF chain.corrupted \/ chain.result = <<>>
        THEN [c EXCEPT !.w.pc = "aborted", !.w.error = "CorruptedChainData"]
        ELSE IF ~IsPrefixMatch(apply(Utf8Decode(chain.result[1].word)), r.folded)
        THEN [c EXCEPT !.w.chainOffset = chain.ptr, !.w.pc = "chop"]
        ELSE [c EXCEPT !.w.chainOffset = chain.ptr, !.w.chain = chain.result,
                       !.w.dataMutex = TRUE, !.w.pc = "append"]

\* An append that keeps dataMutex while the walk goes on to the next
\* leaf.
QueryAppendLocked(c) ==
    LET r == c.w
        resultFolded == apply(Utf8Decode(r.chain[1].word))
        added == NewMatches(r, resultFolded, r.chain)
        fed == [r EXCEPT !.matches = @ \o added,
                         !.lastChain = IF added # <<>> THEN Len(r.chain) ELSE @,
                         !.chain = <<>>]
    IN  [c EXCEPT !.w = [fed EXCEPT !.pc =
                            IF Len(fed.matches) >= r.maxResults THEN "chop"
                            ELSE IF r.chainOffset < Len(r.leaf) THEN "chain"
                            ELSE IF r.nextLeaf = 0 THEN "chop"
                            ELSE "advance"]]

\* The rest of the round, under dataMutex up to the test of maxResults:
\* the matches of the chain are appended, then the walk goes on in this
\* leaf, or in the next one once idxFileMutex is taken, or ends.
QueryAppend(c) ==
    LET r == c.w
        resultFolded == apply(Utf8Decode(r.chain[1].word))
        added == NewMatches(r, resultFolded, r.chain)
        fed == [r EXCEPT !.matches = @ \o added,
                         !.lastChain = IF added # <<>> THEN Len(r.chain) ELSE @,
                         !.chain = <<>>,
                         !.dataMutex = FALSE]
    IN  [c EXCEPT !.w = [fed EXCEPT !.pc =
                            IF Len(fed.matches) >= r.maxResults THEN "chop"
                            ELSE IF r.chainOffset < Len(r.leaf) THEN "chain"
                            ELSE IF r.nextLeaf = 0 THEN "chop"
                            ELSE "advance"]]

\* findArticles once findChainOffsetExactOrPrefix has returned.
ArticlesResult(c) ==
    LET r == c.w
        chain == readChain(r.leaf, r.chainOffset)
    IN  IF r.chainOffset # Null /\ r.exactMatch
        THEN IF chain.corrupted
             THEN [c EXCEPT !.w.error = "CorruptedChainData", !.w.pc = "done"]
             ELSE [c EXCEPT !.w.result = antialias(r.str, chain.result),
                            !.w.pc = "done"]
        ELSE [c EXCEPT !.w.pc = "done"]

\* The places where a thread has a step to take.
ThreadPlaces ==
    {"queued", "search", "root", "node", "nextleaf", "nextlink", "chain",
     "append", "advance", "advread", "advlink", "chop", "result"}

\* The places where a thread is about to take idxFileMutex.
LockPlaces == {"search", "advance"}

\* The places of a thread between taking idxFileMutex and releasing it.
FilePlaces == {"root", "node", "nextleaf", "nextlink", "advread", "advlink"}

\* The next step of thread id.
ThreadStep(c, id) ==
    CASE c.w.pc = "queued" -> [c EXCEPT !.w = RunBegin(c.w)]
      [] c.w.pc = "search" ->
            IF ~c.idx.opened
            THEN DescentReturn(c, id, "IndexWasNotOpened", Null, FALSE)
            ELSE [c EXCEPT !.mutex = id,
                           !.w.target = IF c.w.kind = "query" THEN c.w.folded
                                        ELSE apply(c.w.str),
                           !.w.exactMatch = FALSE,
                           !.w.pc = "root"]
      [] c.w.pc = "root" -> DescentRoot(c, id)
      [] c.w.pc = "node" -> DescentNode(c, id)
      [] c.w.pc = "nextleaf" -> ReadNextLeaf(c, id, "nextlink")
      [] c.w.pc = "nextlink" ->
            DescentReturn(ReadLink(c, id), id, "none", 4, FALSE)
      [] c.w.pc = "chain" -> QueryChain(c)
      [] c.w.pc = "append" -> QueryAppend(c)
      [] c.w.pc = "advance" -> [c EXCEPT !.mutex = id, !.w.pc = "advread"]
      [] c.w.pc = "advread" -> ReadNextLeaf(c, id, "advlink")
      [] c.w.pc = "advlink" ->
            LET linked == ReadLink(c, id)
            IN  [linked EXCEPT !.mutex = 0, !.w.leaf = c.w.buf,
                               !.w.chainOffset = 4, !.w.pc = "chain"]
      [] c.w.pc = "chop" -> [c EXCEPT !.w = RunEnd(c.w)]
      [] c.w.pc = "result" -> ArticlesResult(c)
      [] OTHER -> c

\* The threads: the workers of two query requests and a caller of
\* findArticles.
QueryThreads == {1, 2}

ArticleThread == 3

Threads == QueryThreads \cup {ArticleThread}

\* The requests of the two workers: prefix matches with different targets.
QueryOf(id) ==
    IF id = 1 THEN prefixMatch(W(<<"a", "b">>), 2)
    ELSE prefixMatch(W(<<"b", "b", "c">>), MaxResults)

\* The strings findArticles is called with meanwhile: one that sorts
\* right after a key, one that folds to the last key of the bulk load.
ArticleQueries == {W(<<"a", "b", " ">>), W(<<"B", "b", "c", "a">>)}

\* The dictionaries of the one index file: three keys in a root leaf, then
\* a bulk load of one key per leaf below an internal root.
ConcDictionaries == <<ThreeKeys, Bulk(MinBulk)>>

\* The file after buildIndex has written the first k dictionaries one
\* after the other, with the IndexInfo of the last.
RECURSIVE ConcBuilt(_)
ConcBuilt(k) ==
    IF k = 0 THEN [indexInfo |-> NoIndexInfo, file |-> [data |-> <<>>, pos |-> 0]]
    ELSE buildIndex(ConcDictionaries[k], ConcBuilt(k - 1).file)

World(id) ==
    [w |-> workers.thread[id], idx |-> idx, file |-> file,
     mutex |-> idxFileMutex, rootReads |-> workers.rootReads]

Idle == \A id \in Threads : workers.thread[id].pc = "none"

InitConcurrent ==
    /\ \E k \in DOMAIN ConcDictionaries :
          /\ indexedWords = ConcDictionaries[k]
          /\ indexInfo = ConcBuilt(k).indexInfo
          /\ idx = openIndex(ConcBuilt(k).indexInfo)
    /\ singles = {}
    /\ file = ConcBuilt(Len(ConcDictionaries)).file
    /\ phase = "opened"
    /\ lookup = NoLookup
    /\ req = NoRequest
    /\ adds = MaxAdds
    /\ idxFileMutex = 0
    /\ workers = [thread |-> [id \in Threads |-> NoThread], rootReads |-> 0]

\* openIndex on another index of the file, no lookup being under way.
Reopen(k) ==
    /\ Idle
    /\ indexedWords' = ConcDictionaries[k]
    /\ indexInfo' = ConcBuilt(k).indexInfo
    /\ idx' = openIndex(ConcBuilt(k).indexInfo)
    /\ workers' = [workers EXCEPT !.rootReads = 0]
    /\ UNCHANGED <<singles, file, phase, lookup, req, adds, idxFileMutex>>

\* prefixMatch: the request is made and its runnable queued.
StartQuery(id) ==
    /\ workers.thread[id].pc = "none"
    /\ workers' = [workers EXCEPT !.thread[id] = NewThread("query", QueryOf(id))]
    /\ UNCHANGED <<indexedWords, singles, file, indexInfo, idx, phase, lookup,
                   req, adds, idxFileMutex>>

\* A thread enters findArticles.
CallFindArticles(str) ==
    /\ workers.thread[ArticleThread].pc = "none"
    /\ workers' = [workers EXCEPT !.thread[ArticleThread] =
                      [NewThread("findArticles", NewRequest(str, 0, -1, TRUE, 0))
                          EXCEPT !.pc = "search"]]
    /\ UNCHANGED <<indexedWords, singles, file, indexInfo, idx, phase, lookup,
                   req, adds, idxFileMutex>>

\* findArticles has returned and its result is taken.
ArticlesReturn ==
    /\ workers.thread[ArticleThread].pc = "done"
    /\ workers' = [workers EXCEPT !.thread[ArticleThread] = NoThread]
    /\ UNCHANGED <<indexedWords, singles, file, indexInfo, idx, phase, lookup,
                   req, adds, idxFileMutex>>

\* Thread id takes its next step; where it takes idxFileMutex it waits
\* for the mutex.
Step(id) ==
    /\ workers.thread[id].pc \in ThreadPlaces
    /\ (workers.thread[id].pc \in LockPlaces /\ idx.opened)
          => MutexFree(idxFileMutex)
    /\ \E c \in {ThreadStep(World(id), id)} :
          /\ workers' = [thread |-> [workers.thread EXCEPT ![id] = c.w],
                         rootReads |-> c.rootReads]
          /\ idx' = c.idx
          /\ file' = c.file
          /\ idxFileMutex' = c.mutex
    /\ UNCHANGED <<indexedWords, singles, indexInfo, phase, lookup, req, adds>>

\* ~BtreeWordSearchRunnable of the worker id, after run() has returned
ThreadRunnableDestroyed(id) ==
    /\ workers.thread[id].pc = "returned"
    /\ workers' = [workers EXCEPT !.thread[id].hasExited = @ + 1,
                                  !.thread[id].pc = "exited"]
    /\ UNCHANGED <<indexedWords, singles, file, indexInfo, idx, phase, lookup,
                   req, adds, idxFileMutex>>

\* cancel() on the request of worker id
ThreadCancel(id) ==
    /\ workers.thread[id].pc # "none"
    /\ ~workers.thread[id].destroying
    /\ workers.thread[id].isCancelled < MaxCancels
    /\ workers' = [workers EXCEPT !.thread[id].isCancelled = @ + 1]
    /\ UNCHANGED <<indexedWords, singles, file, indexInfo, idx, phase, lookup,
                   req, adds, idxFileMutex>>

\* The destructor of the request of worker id up to hasExited.acquire()
ThreadDestroyBegin(id) ==
    /\ workers.thread[id].pc # "none"
    /\ ~workers.thread[id].destroying
    /\ workers' = [workers EXCEPT !.thread[id].isCancelled = @ + 1,
                                  !.thread[id].destroying = TRUE]
    /\ UNCHANGED <<indexedWords, singles, file, indexInfo, idx, phase, lookup,
                   req, adds, idxFileMutex>>

\* hasExited.acquire() returns and the request of worker id is gone.
ThreadDestroyEnd(id) ==
    /\ workers.thread[id].pc # "none"
    /\ workers.thread[id].destroying
    /\ workers.thread[id].hasExited > 0
    /\ workers' = [workers EXCEPT !.thread[id] = NoThread]
    /\ UNCHANGED <<indexedWords, singles, file, indexInfo, idx, phase, lookup,
                   req, adds, idxFileMutex>>

NextConcurrent ==
    \/ \E k \in DOMAIN ConcDictionaries : Reopen(k)
    \/ \E id \in QueryThreads : StartQuery(id)
    \/ \E str \in ArticleQueries : CallFindArticles(str)
    \/ ArticlesReturn
    \/ \E id \in Threads : Step(id)
    \/ \E id \in QueryThreads : ThreadRunnableDestroyed(id)
    \/ \E id \in QueryThreads : ThreadCancel(id)
    \/ \E id \in QueryThreads : ThreadDestroyBegin(id)
    \/ \E id \in QueryThreads : ThreadDestroyEnd(id)

SpecConcurrent == InitConcurrent /\ [][NextConcurrent]_vars

(***************************************************************************)
(* The two workers on their own, each scheduled again and again: the       *)
(* thread pool runs every queued runnable and lets every running thread    *)
(* go on, and a thread that waits for idxFileMutex gets it at some time    *)
(* when the mutex is released again and again.                             *)
(***************************************************************************)

NextWorkers ==
    \/ \E id \in QueryThreads : StartQuery(id)
    \/ \E id \in QueryThreads : Step(id)
    \/ \E id \in QueryThreads : ThreadRunnableDestroyed(id)
    \/ \E id \in QueryThreads : ThreadCancel(id)
    \/ \E id \in QueryThreads : ThreadDestroyBegin(id)
    \/ \E id \in QueryThreads : ThreadDestroyEnd(id)

\* ENABLED <<Step(id)>>_vars: the thread has a step to take and does not
\* wait for the mutex (every step of a thread changes its record).
StepEnabled(id) ==
    /\ workers.thread[id].pc \in ThreadPlaces
    /\ (workers.thread[id].pc \in LockPlaces /\ idx.opened)
          => MutexFree(idxFileMutex)

\* <<Step(id)>>_vars: of the actions only Step changes more of a thread in
\* one of ThreadPlaces than its cancellation flag and its destroying mark.
Stepped(id) ==
    /\ workers.thread[id].pc \in ThreadPlaces
    /\ workers'.thread[id].pc # "none"
    /\ [workers'.thread[id] EXCEPT !.isCancelled = 0, !.destroying = FALSE]
          # [workers.thread[id] EXCEPT !.isCancelled = 0, !.destroying = FALSE]

\* Strong fairness of Step(id), SF_vars(Step(id)), written with the two
\* definitions above, and weak fairness of the end of the runnable and of
\* the return of hasExited.acquire().
Scheduling ==
    \A id \in QueryThreads :
        /\ <>[](~StepEnabled(id)) \/ []<><<Stepped(id)>>_vars
        /\ WF_vars(ThreadRunnableDestroyed(id))
        /\ WF_vars(ThreadDestroyEnd(id))

SpecWorkers == InitConcurrent /\ [][NextWorkers]_vars /\ Scheduling

(***************************************************************************)
(* Cancellation before the worker starts                                   *)
(***************************************************************************)

\* C11: when the cancellation flag of a request is set before its worker
\* starts running, the first step of the worker is its last: finish() is
\* called (once), run() has returned, matches is empty, and the step has
\* neither read the root nor moved the file position, taken idxFileMutex
\* or dataMutex, or touched the reader.
C11_CancelledBeforeStart ==
    [][\A id \in QueryThreads :
          (/\ workers.thread[id].pc = "queued"
           /\ workers.thread[id].isCancelled # 0
           /\ workers'.thread[id].pc # "queued")
          => /\ workers'.thread[id].pc = "returned"
             /\ workers'.thread[id].finishCalls = 1
             /\ workers'.thread[id].matches = <<>>
             /\ workers'.thread[id].leaf = <<>>
             /\ workers'.thread[id].buf = <<>>
             /\ ~workers'.thread[id].dataMutex
             /\ ~workers'.thread[id].unguarded
             /\ workers'.rootReads = workers.rootReads
             /\ file' = file
             /\ idx' = idx
             /\ idxFileMutex' = idxFileMutex]_vars

\* A worker has returned from run() for a request cancelled before it
\* started (nothing was folded), while the other worker holds idxFileMutex
\* in its descent.
C11_Witness ==
    \E id \in QueryThreads :
        /\ workers.thread[id].pc = "returned"
        /\ workers.thread[id].isCancelled # 0
        /\ ~workers.thread[id].destroying
        /\ workers.thread[id].folded = <<>>
        /\ workers.thread[id].finishCalls = 1
        /\ workers.thread[id].matches = <<>>
        /\ idxFileMutex \in QueryThreads \ {id}

(***************************************************************************)
(* finish(), the exit semaphore and the destructor                         *)
(***************************************************************************)

\* The worker of the request in place id has returned from run().
Returned(id) == workers.thread[id].pc \in {"returned", "exited"}

\* C12: for every request, cancelled at any point or not, finish() is
\* called exactly once by the time run() has returned and never more; the
\* exit semaphore is released only after run() has returned, by a worker
\* that takes no step afterwards; the destructor sets the cancellation flag
\* and returns only after that release, the worker holding no mutex then;
\* and a destructor that was entered returns.
C12_JoinOnDestroy ==
    /\ [](\A id \in QueryThreads :
             workers.thread[id].pc # "none" =>
                /\ workers.thread[id].finishCalls
                      = (IF Returned(id) THEN 1 ELSE 0)
                /\ workers.thread[id].hasExited
                      = (IF workers.thread[id].pc = "exited" THEN 1 ELSE 0)
                /\ workers.thread[id].destroying
                      => workers.thread[id].isCancelled # 0
                /\ Returned(id)
                      => (idxFileMutex # id /\ ~workers.thread[id].dataMutex))
    /\ [][\A id \in QueryThreads :
             /\ (workers.thread[id].pc # "none" /\ workers'.thread[id].pc = "none")
                   => /\ workers.thread[id].destroying
                      /\ workers.thread[id].pc = "exited"
                      /\ workers.thread[id].hasExited = 1
             /\ workers.thread[id].pc = "exited"
                   => workers'.thread[id] \in
                         {NoThread,
                          workers.thread[id],
                          [workers.thread[id] EXCEPT !.isCancelled = @ + 1],
                          [workers.thread[id] EXCEPT !.isCancelled = @ + 1,
                                                     !.destroying = TRUE]}]_vars
    /\ \A id \in QueryThreads :
          (workers.thread[id].pc # "none" /\ workers.thread[id].destroying)
              ~> (workers.thread[id].pc = "none")

\* A request was cancelled and then destroyed while its worker was under
\* way with matches appended; the worker has called finish() and released
\* the semaphore, and the destructor is about to return.
C12_Witness ==
    \E id \in QueryThreads :
        /\ workers.thread[id].pc = "exited"
        /\ workers.thread[id].destroying
        /\ workers.thread[id].isCancelled = 2
        /\ workers.thread[id].matches # <<>>
        /\ Len(workers.thread[id].matches) < 2
        /\ workers.thread[id].finishCalls = 1
        /\ workers.thread[id].hasExited = 1

(***************************************************************************)
(* Two concurrent prefix matches                                           *)
(***************************************************************************)

\* What the request of worker id finishes with when its worker runs alone
\* on the index that is bound.
AloneMatches(id) ==
    RunAlone(QueryOf(id), openIndex(indexInfo), [data |-> file.data, pos |-> 0]).matches

\* C13: two prefix matches with different targets run concurrently on one
\* index.  No worker waits for idxFileMutex while it holds its dataMutex,
\* and none takes or holds dataMutex while it holds idxFileMutex; a worker
\* whose own request was not cancelled returns with the matches it gives
\* when run alone, whatever the other worker does and whether the other
\* request is cancelled; and every worker that was queued returns from
\* run(), having called finish().
C13_ConcurrentPrefixMatches ==
    /\ [](\A id \in QueryThreads :
             workers.thread[id].pc # "none" =>
                /\ workers.thread[id].pc \in LockPlaces
                      => ~workers.thread[id].dataMutex
                /\ (workers.thread[id].pc = "chain" \/ workers.thread[id].dataMutex)
                      => idxFileMutex # id
                /\ (Returned(id) /\ workers.thread[id].isCancelled = 0)
                      => /\ workers.thread[id].matches = AloneMatches(id)
                         /\ workers.thread[id].finishCalls = 1
                         /\ workers.thread[id].error = "none")
    /\ \A id \in QueryThreads :
          (workers.thread[id].pc = "queued") ~> Returned(id)

\* Both workers have returned on the two-level index: the first request
\* was cancelled in mid-flight, after the first of its two matches, and
\* the second, never cancelled, has the two matches it has when run alone,
\* from two leaves.
C13_Witness ==
    /\ Len(IndexKeys(indexedWords)) = MinBulk
    /\ Returned(1)
    /\ Returned(2)
    /\ workers.thread[1].isCancelled = 1
    /\ Len(workers.thread[1].matches) = 1
    /\ workers.thread[2].isCancelled = 0
    /\ workers.thread[2].matches
          = <<W(<<"b", "b", "c">>), W(<<"b", "b", "c", "a">>)>>
    /\ workers.thread[2].matches = AloneMatches(2)

(***************************************************************************)
(* Exact lookups of headwords of several tokens, and antialias on its own  *)
(***************************************************************************)

\* The headwords added: three tokens, and two that fold to one key.
ArticleWords ==
    { W(<<"N", "e", "w", " ", "Y", "o", "r", "k", " ", "C", "i", "t", "y">>),
      W(<<"A">>), W(<<"a'">>) }

\* The strings looked up: a token that is no key, the keys of the
\* suffixes, the headwords as added and in another letter case.
ArticleLookups ==
    { W(<<"y", "o", "r", "k">>),
      W(<<"y", "o", "r", "k", " ", "c", "i", "t", "y">>),
      W(<<"c", "i", "t", "y">>),
      W(<<"N", "e", "w", " ", "Y", "o", "r", "k", " ", "C", "i", "t", "y">>),
      W(<<"n", "e", "w", " ", "y", "o", "r", "k", " ", "c", "i", "t", "y">>),
      W(<<"a">>), W(<<"A">>) }

\* The records of the chains handed to antialias directly: middle matches,
\* whole headwords, a diacritic.
AliasLinks ==
    { WordArticleLink(Utf8Encode(W(<<"b">>)), 1, Utf8Encode(W(<<"a", " ">>))),
      WordArticleLink(Utf8Encode(W(<<"B">>)), 2, Utf8Encode(W(<<"A", " ">>))),
      WordArticleLink(Utf8Encode(W(<<"a", " ", "b">>)), 3, <<>>),
      WordArticleLink(Utf8Encode(W(<<"b">>)), 4, <<>>),
      WordArticleLink(Utf8Encode(W(<<"b">>)), 5, Utf8Encode(W(<<"a'", " ">>))) }

\* The longest chain handed to antialias directly.
MaxAliasChain == 2

AliasChains ==
    UNION {[1 .. n -> AliasLinks] : n \in 0 .. MaxAliasChain}

AliasQueries == {W(<<"a", " ", "b">>), W(<<"A", " ", "B">>), W(<<"b">>)}

\* BtreeIndex::antialias called on a chain.
Antialias(str, chain) ==
    /\ lookup.op = "none"
    /\ lookup' = [op |-> "antialias", str |-> str, located |-> chain,
                  result |-> antialias(str, chain)]
    /\ UNCHANGED <<indexedWords, singles, file, indexInfo, idx, phase, req, adds,
                   idxFileMutex, workers>>

InitArticles ==
    /\ indexedWords = <<>>
    /\ singles = {}
    /\ file = [data |-> <<>>, pos |-> 0]
    /\ indexInfo = NoIndexInfo
    /\ idx = NewBtreeIndex
    /\ phase = "filling"
    /\ lookup = NoLookup
    /\ req = NoRequest
    /\ adds = 0
    /\ idxFileMutex = 0
    /\ workers = <<>>

NextArticles ==
    \/ \E word \in ArticleWords : AddWord(word, 42 + adds)
    \/ BuildIndex
    \/ OpenIndex
    \/ \E str \in ArticleLookups : lookup.op = "none" /\ FindArticles(str)
    \/ \E str \in AliasQueries, chain \in AliasChains :
          phase = "opened" /\ Antialias(str, chain)

SpecArticles == InitArticles /\ [][NextArticles]_vars

\* C14: for the query q given to findArticles, the records of the located
\* chain whose simple case fold of prefix + word differs from that of q
\* are discarded and all others kept in their order, each returned with an
\* empty prefix and the stored prefix followed by the stored word as its
\* word; the located chain is the one under the key Folding::apply( q ),
\* and when there is no such key the result is empty.  The same holds of
\* antialias called on any chain.
C14_AntialiasKeepsSimpleCaseEqual ==
    /\ lookup.op = "antialias" =>
          lookup.result
              = Merged(SameUpToCase(Utf8Encode(lookup.str), lookup.located))
    /\ lookup.op = "findArticles" =>
          /\ lookup.error = "none"
          /\ lookup.exactMatch
                = (\E i \in DOMAIN IndexKeys(indexedWords) :
                      IndexKeys(indexedWords)[i] = Utf8Encode(apply(lookup.str)))
          /\ lookup.exactMatch =>
                /\ lookup.located
                      = ChainOf(indexedWords, Utf8Encode(apply(lookup.str)))
                /\ lookup.result
                      = Merged(SameUpToCase(Utf8Encode(lookup.str), lookup.located))
          /\ ~lookup.exactMatch => lookup.result = <<>>
          /\ \A j \in DOMAIN lookup.result : lookup.result[j].prefix = <<>>

\* antialias was given a chain of two middle-match records of which it
\* discarded the first and kept the second, merging its prefix into the
\* word.
C14_Witness ==
    /\ lookup.op = "antialias"
    /\ Len(lookup.located) = 2
    /\ lookup.located[1].prefix # <<>>
    /\ lookup.located[2].prefix # <<>>
    /\ Len(lookup.result) = 1
    /\ lookup.result[1].prefix = <<>>
    /\ lookup.result[1].word = lookup.located[2].prefix \o lookup.located[2].word
    /\ lookup.result[1].articleOffset = lookup.located[2].articleOffset

\* The headword of the example, and the lookups made for it.
NewYorkCity ==
    W(<<"N", "e", "w", " ", "Y", "o", "r", "k", " ", "C", "i", "t", "y">>)

York == W(<<"y", "o", "r", "k">>)

YorkCity == W(<<"y", "o", "r", "k", " ", "c", "i", "t", "y">>)

\* The index was filled by addWord( "New York City", 42 ) alone.
OnlyNewYorkCity ==
    /\ adds = 1
    /\ indexedWords = addWord(<<>>, NewYorkCity, 42)

\* What the example says of the keys and of the lookup of "york": the keys
\* are the three folded suffixes, each with one record of offset 42 whose
\* prefix and word give the headword, and "york" is no key.
ThreeSuffixKeys ==
    /\ IndexKeys(indexedWords)
          = << Utf8Encode(W(<<"c", "i", "t", "y">>)),
               Utf8Encode(apply(NewYorkCity)),
               Utf8Encode(YorkCity) >>
    /\ \A i \in DOMAIN IndexKeys(indexedWords) :
          LET chain == ChainOf(indexedWords, IndexKeys(indexedWords)[i])
          IN  /\ Len(chain) = 1
              /\ chain[1].articleOffset = 42
              /\ chain[1].prefix \o chain[1].word = Utf8Encode(NewYorkCity)
    /\ (lookup.op = "findArticles" /\ lookup.str = York) =>
          /\ ~lookup.exactMatch
          /\ lookup.result = <<>>

\* C15: after addWord( "New York City", 42 ) and buildIndex the index holds
\* exactly the keys "city", "new york city" and "york city", each with one
\* record of offset 42 whose prefix followed by its word is the headword;
\* findArticles( "york" ) returns nothing; findArticles( "york city" )
\* locates the record with prefix "New " and word "York City" and returns
\* nothing, since the headword differs from the query by more than letter
\* case; findArticles of the whole headword, in either letter case, returns
\* one record with offset 42, an empty prefix and the headword as its word.
C15_MiddleMatchNotAnArticle ==
    OnlyNewYorkCity =>
        /\ ThreeSuffixKeys
        /\ (lookup.op = "findArticles" /\ lookup.str = YorkCity) =>
              /\ lookup.exactMatch
              /\ lookup.located
                    = << WordArticleLink(
                             Utf8Encode(W(<<"Y", "o", "r", "k", " ", "C", "i", "t", "y">>)),
                             42, Utf8Encode(W(<<"N", "e", "w", " ">>))) >>
              /\ lookup.result = <<>>
        /\ (lookup.op = "findArticles"
               /\ lookup.str \in {NewYorkCity, applySimpleCaseOnly(NewYorkCity)}) =>
              lookup.result
                  = << WordArticleLink(Utf8Encode(NewYorkCity), 42, <<>>) >>

\* The index of "New York City" alone was opened and "york city" was looked
\* up in it: the key was found, and its record is a middle match.
C15_Witness ==
    /\ OnlyNewYorkCity
    /\ phase = "opened"
    /\ lookup.op = "findArticles"
    /\ lookup.str = YorkCity
    /\ lookup.exactMatch
    /\ Len(lookup.located) = 1
    /\ lookup.located[1].prefix # <<>>

\* C15 as stated: findArticles( "york city" ) returns one record with
\* offset 42, an empty prefix and the whole headword as its word.
C15_YorkCityReturned ==
    OnlyNewYorkCity =>
        /\ ThreeSuffixKeys
        /\ (lookup.op = "findArticles" /\ lookup.str = YorkCity) =>
              lookup.result
                  = << WordArticleLink(Utf8Encode(NewYorkCity), 42, <<>>) >>

(***************************************************************************)
(* The index file under concurrent lookups                                 *)
(***************************************************************************)

\* The places where a thread is about to read the forward link of the
\* leaf it has just read.
LinkPlaces == {"nextlink", "advlink"}

\* C16: under every interleaving of findArticles calls and query workers on
\* one index, no thread has made a seek or read on the index file without
\* holding idxFileMutex; a thread anywhere between the start of its descent
\* and its return, or between the lock and the link read of run()'s step to
\* the next leaf, is the holder of the mutex, and nobody else holds it;
\* every nextLeaf a thread has read was read at the file position left by
\* the node that same thread read last, and the position is there whenever
\* a thread is about to read a link.
C16_FileAccessUnderMutex ==
    /\ \A id \in Threads :
          LET t == workers.thread[id]
          IN  t.pc # "none" =>
                 /\ ~t.unguarded
                 /\ ~t.strayLink
                 /\ t.pc \in FilePlaces <=> idxFileMutex = id
                 /\ t.pc \in LinkPlaces => file.pos = t.loadedEnd
    /\ idxFileMutex \in Threads \cup {0}
    /\ idxFileMutex # 0 => workers.thread[idxFileMutex].pc \in FilePlaces

\* A worker holds idxFileMutex and is about to read the link of the leaf
\* it has just read, while a second thread waits for the mutex and a third
\* works on a node it read elsewhere in the file.
C16_Witness ==
    \E a, b, c \in Threads :
        /\ a # b /\ b # c /\ a # c
        /\ workers.thread[a].pc \in LinkPlaces
        /\ idxFileMutex = a
        /\ workers.thread[b].pc \in LockPlaces
        /\ workers.thread[c].pc \in {"chain", "append", "result"}
        /\ workers.thread[c].loadedEnd # 0
        /\ workers.thread[c].loadedEnd # workers.thread[a].loadedEnd

(***************************************************************************)
(* A corrupted chainSize.  The chainSize field of the last chain of a leaf *)
(* is overwritten in the file; the lookups that follow read the leaf as    *)
(* the code does, which checks a chain's size against the size of each     *)
(* record after it has read the record and never against the end of the    *)
(* leaf buffer.  What lies in memory past the buffer is not determined by  *)
(* the program: a lookup that reads there gets some bytes, or a fault.     *)
(***************************************************************************)

\* The number of bytes past the end of a leaf buffer that a read can
\* reach.
MaxOverrun == 8

\* What the memory past the end of a leaf buffer may hold.
BeyondLeaf ==
    { [i \in 1 .. MaxOverrun |-> 0],
      [i \in 1 .. MaxOverrun |-> IF i = 1 THEN 1 ELSE 0] }

\* The changes made to a chainSize: one byte short of the end of the last
\* record, one byte and one smallest record past the end of the leaf.
CorruptDeltas == {-1, 1, 6}

\* The offsets of the leaves whose last chain is corrupted: the root when
\* it is a leaf, else the first and the last child of the root.
CorruptibleLeaves(data, info) ==
    LET root == readNode(data, info.rootOffset).out
    IN  IF ReadU32(root, 0) # NodeMarker THEN {info.rootOffset}
        ELSE {ReadU32(root, 4), ReadU32(root, 4 + 4 * info.btreeMaxElements)}

\* BtreeIndex::findArticles when the memory past the leaf buffer holds
\* beyond: readChain goes on past leafEnd while chainSize is not used up;
\* outside tells whether it read a byte past the buffer.
findArticlesOverrun(reader, f, str, beyond) ==
    LET folded == apply(str)
        found == findChainOffsetExactOrPrefix(reader, f, folded)
        chain == readChain(found.leaf \o beyond, found.chainOffset)
    IN  IF found.error # "none"
        THEN [result |-> <<>>, error |-> found.error, found |-> found,
              outside |-> FALSE]
        ELSE IF found.chainOffset # Null /\ found.exactMatch
        THEN IF chain.corrupted
             THEN [result |-> <<>>, error |-> "CorruptedChainData", found |-> found,
                   outside |-> chain.ptr > Len(found.leaf)]
             ELSE [result |-> antialias(str, chain.result), error |-> "none",
                   found |-> found, outside |-> chain.ptr > Len(found.leaf)]
        ELSE [result |-> <<>>, error |-> "none", found |-> found,
              outside |-> FALSE]

\* The chainSize of the last chain of the leaf at node is changed by delta
\* in the file, before the index is opened.  The change is kept with the
\* first word of the chain and the first word of the leaf, which are the
\* strings looked up afterwards.
CorruptChainSize(node, delta) ==
    /\ phase = "built"
    /\ lookup.op = "none"
    /\ LET leaf == readNode(file.data, node).out
           leafEntries == ReadU32(leaf, 0)
           chainOffset == ChainOffsets(leaf, 4, leafEntries)[leafEntries]
           chainSize == ReadU32(leaf, chainOffset)
       IN  /\ leafEntries # NodeMarker
           /\ leafEntries > 0
           /\ file' = FileSeek(FileWrite(FileSeek(file, node + 9 + chainOffset),
                                         U32(chainSize + delta)),
                               file.pos)
           /\ lookup' = [op |-> "corrupt", node |-> node,
                         chainOffset |-> chainOffset, chainSize |-> chainSize,
                         corruptedSize |-> chainSize + delta,
                         leafEnd |-> Len(leaf),
                         word |-> Utf8Decode(CStr(leaf, chainOffset + 4)),
                         firstWord |-> Utf8Decode(CStr(leaf, 8))]
    /\ UNCHANGED <<indexedWords, singles, indexInfo, idx, phase, req, adds,
                   idxFileMutex, workers>>

\* findArticles( str ) on the index with the corrupted chain: with one of
\* the contents of the memory past the leaf, or, when the call reads
\* there, ended by a fault.
FindArticlesOverrun(str) ==
    /\ phase = "opened"
    /\ lookup.op = "corrupt"
    /\ \E beyond \in BeyondLeaf, fault \in BOOLEAN :
          \E call \in {findArticlesOverrun(idx, file, str, beyond)} :
              /\ fault => call.outside
              /\ lookup' = [op |-> "findArticles", str |-> str,
                            corrupt |-> lookup,
                            outside |-> call.outside,
                            beyond |-> IF call.outside THEN beyond ELSE <<>>,
                            error |-> IF fault THEN "fault" ELSE call.error,
                            result |-> IF fault THEN <<>> ELSE call.result]
              /\ idx' = AfterDescent(idx, call.found)
              /\ file' = [file EXCEPT !.pos = call.found.pos]
    /\ UNCHANGED <<indexedWords, singles, indexInfo, phase, req, adds,
                   idxFileMutex, workers>>

NextCorrupt ==
    \/ \E word \in Headwords : AddWord(word, FirstArticleOffset + adds)
    \/ BuildIndex
    \/ /\ phase = "built"
       /\ \E node \in CorruptibleLeaves(file.data, indexInfo), delta \in CorruptDeltas :
             CorruptChainSize(node, delta)
    \/ OpenIndex
    \/ /\ lookup.op = "corrupt"
       /\ \E str \in {lookup.word, lookup.firstWord} : FindArticlesOverrun(str)

SpecCorrupt == Init /\ [][NextCorrupt]_vars

\* C17: findArticles of the first word of a chain whose chainSize was
\* changed so that it ends on no record boundary within the leaf fails
\* with CorruptedChainData, returns no records and has read no byte
\* outside the leaf buffer.
C17_CorruptedChainDataThrown ==
    (lookup.op = "findArticles" /\ "corrupt" \in DOMAIN lookup
        /\ lookup.str = lookup.corrupt.word) =>
        /\ lookup.error = "CorruptedChainData"
        /\ lookup.result = <<>>
        /\ ~lookup.outside

(***************************************************************************)
(* The cached root node under concurrent lookups                           *)
(***************************************************************************)

\* The cache holds the root node of the index bound last.
RootCacheCurrent ==
    /\ idx.rootOffset = indexInfo.rootOffset
    /\ idx.rootNodeLoaded =>
          idx.rootNode = readNode(file.data, idx.rootOffset).out
    /\ ~idx.rootNodeLoaded => workers.rootReads = 0
    /\ workers.rootReads <= 1

\* A step either leaves the cache as it is, or fills the empty cache in
\* the descent of the thread that holds idxFileMutex, which is the one root
\* read from the file, or is an openIndex that empties it, no lookup being
\* under way.
RootCacheStep ==
    /\ (idx.rootNodeLoaded /\ idx'.rootNodeLoaded) =>
          /\ idx'.rootNode = idx.rootNode
          /\ workers'.rootReads = workers.rootReads
    /\ (~idx.rootNodeLoaded /\ idx'.rootNodeLoaded) =>
          /\ idxFileMutex \in Threads
          /\ idxFileMutex' = idxFileMutex
          /\ workers.thread[idxFileMutex].pc = "root"
          /\ workers'.rootReads = 1
    /\ ~idx'.rootNodeLoaded =>
          /\ idx'.rootNode = <<>>
          /\ workers'.rootReads = 0
    /\ idx' # idx =>
          \/ ~idx.rootNodeLoaded /\ idx' = [idx EXCEPT !.rootNodeLoaded = TRUE,
                                                      !.rootNode = idx'.rootNode]
          \/ Idle /\ idx' = openIndex(indexInfo')

\* C18: between one openIndex and the next, under every interleaving of
\* the lookups of three threads, the root node is read from the file at
\* most once, by a descent that holds idxFileMutex, and the cached bytes are
\* not modified afterwards; openIndex empties the cache, and a loaded cache
\* always holds the root node found at the rootOffset bound last.  openIndex
\* itself takes no lock and is called while no lookup is under way.
C18_RootReadOnce ==
    /\ []RootCacheCurrent
    /\ [][RootCacheStep]_vars

\* The root was read once from the file and is cached; a thread that made
\* no file access of its own holds idxFileMutex and descends from the
\* cached root, while another thread has finished a descent.
C18_Witness ==
    /\ workers.rootReads = 1
    /\ idx.rootNodeLoaded
    /\ \E a, b \in Threads :
          /\ a # b
          /\ workers.thread[a].pc = "node"
          /\ idxFileMutex = a
          /\ workers.thread[a].loadedEnd = 0
          /\ workers.thread[a].buf = idx.rootNode
          /\ workers.thread[b].pc \in {"chain", "append", "result", "chop"}
          /\ workers.thread[b].loadedEnd # 0

(***************************************************************************)
(* Stemmed queries whose chopped targets are prefixes of the same keys     *)
(***************************************************************************)

Apple == W(<<"a", "p", "p", "l", "e">>)

Apples == W(<<"a", "p", "p", "l", "e", "s">>)

\* The dictionary of the example: one record under each of three keys.
StemKeys ==
    addWord(addWord(addWord(<<>>, Apple, 1),
                    W(<<"a", "p", "p", "l", "y">>), 2),
            W(<<"a", "p", "r", "i", "c", "o", "t">>), 3)

\* The targets of the stemmed queries.
StemTargets == {Apples, Apple, W(<<"a", "p", "r", "i", "l">>)}

InitStem ==
    /\ indexedWords = StemKeys
    /\ singles = {}
    /\ file = [data |-> <<>>, pos |-> 0]
    /\ indexInfo = NoIndexInfo
    /\ idx = NewBtreeIndex
    /\ phase = "filling"
    /\ lookup = NoLookup
    /\ req = NoRequest
    /\ idxFileMutex = 0
    /\ workers = <<>>
    /\ adds = MaxAdds

NextStem ==
    \/ BuildIndex
    \/ OpenIndex
    \/ \E str \in StemTargets, minLength \in {0, 4},
          maxSuffixVariation \in 0 .. MaxVariation, maxResults \in {1, 10} :
          StemmedMatch(str, minLength, maxSuffixVariation, maxResults)
    \/ Work
    \/ RunnableDestroyed
    \/ Cancel
    \/ DestroyBegin
    \/ DestroyEnd

SpecStem == InitStem /\ [][NextStem]_vars

\* The number of times the headword word stands in matches.
TimesMatched(matches, word) ==
    Cardinality({i \in DOMAIN matches : matches[i] = word})

\* C19: a stemmed query appends each indexed record to matches at most
\* once, also when several of its chopped targets are prefixes of one key:
\* no headword of the three keys stands twice in matches, and
\* stemmedMatch( "apples", 4, 2, 10 ) finishes with apple once in matches.
C19_MatchedOnce ==
    /\ req.pc # "none" =>
          \A i, j \in DOMAIN req.matches :
              req.matches[i] = req.matches[j] => i = j
    /\ (req.pc = "returned" /\ req.str = Apples /\ req.minLength = 4
           /\ req.maxSuffixVariation = 2 /\ req.maxResults = 10
           /\ req.isCancelled = 0) =>
          TimesMatched(req.matches, Apple) = 1

====
